---- MODULE Spec2Model ----
(***************************************************************************)
(* ztier: a tiered allocator for compressed pages (src/mm/ztier.c).        *)
(*                                                                         *)
(* A pool carves 4 KiB host pages into chunks of one of three sizes, keeps *)
(* the free chunks of each tier in a red-black tree keyed by the address   *)
(* of the in-chunk node, and reclaims whole pages through a user supplied  *)
(* eviction callback.  The model keeps the trees as trees (root, child and *)
(* parent links, colours): the search helpers of ztier.c walk the links,   *)
(* so what they return depends on the shape and not only on the key set.   *)
(***************************************************************************)
EXTENDS Integers, Sequences, FiniteSets, TLC

(***************************************************************************)
(* Program constants                                                       *)
(***************************************************************************)
PAGE_SIZE == 4096

NUM_TIERS == 3

TIER_SIZES == [tier \in 0..(NUM_TIERS - 1) |->
                 IF tier = 0 THEN 2048 ELSE IF tier = 1 THEN 1024 ELSE 256]

SIZE_OF_ZSWPHDR == 8

NULL == 0

EINVAL == 22
ENOSPC == 28
ENOMEM == 12
EAGAIN == 11

\* chunk_struct(): the tree node of a chunk lies after the zswap header
chunk_struct(handle) == handle + SIZE_OF_ZSWPHDR

\* struct_chunk(): the chunk (handle) a tree node belongs to
struct_chunk(str) == str - SIZE_OF_ZSWPHDR

\* handle & PAGE_MASK
page_of(addr) == (addr \div PAGE_SIZE) * PAGE_SIZE

(***************************************************************************)
(* Red-black trees (struct rb_root / struct rb_node).                      *)
(* A tree is a record: root is a node or NULL; left, right and parent map  *)
(* each node of the tree to a node or NULL; red maps it to its colour.     *)
(* Nodes are identified by their address.                                  *)
(***************************************************************************)
NoLinks == [n \in {} |-> NULL]

RB_ROOT == [root |-> NULL, left |-> NoLinks, right |-> NoLinks,
            parent |-> NoLinks, red |-> NoLinks]

Nodes(tree) == DOMAIN tree.left

Other(dir) == IF dir = "left" THEN "right" ELSE "left"

\* rb_set_parent_color(), a no-op on NULL where the caller tests for it
rb_set_parent_color(tree, n, p, isred) ==
  IF n = NULL THEN tree
  ELSE [tree EXCEPT !.parent[n] = p, !.red[n] = isred]

\* rb_set_parent(), a no-op on NULL where the caller tests for it
rb_set_parent(tree, n, p) ==
  IF n = NULL THEN tree ELSE [tree EXCEPT !.parent[n] = p]

\* __rb_change_child()
rb_change_child(tree, old, new, parent) ==
  IF parent # NULL
    THEN IF tree.left[parent] = old
           THEN [tree EXCEPT !.left[parent] = new]
           ELSE [tree EXCEPT !.right[parent] = new]
    ELSE [tree EXCEPT !.root = new]

\* __rb_rotate_set_parents(): new takes old's parent and colour, old
\* becomes a child of new with the given colour
rb_rotate_set_parents(tree, old, new, isred) ==
  LET parent == tree.parent[old]
      t1 == [tree EXCEPT !.parent[new] = parent, !.red[new] = tree.red[old],
                         !.parent[old] = new, !.red[old] = isred]
  IN rb_change_child(t1, old, new, parent)

\* rb_insert_color(): the rebalancing loop of __rb_insert(); node is red
RECURSIVE rb_insert_color(_, _)
rb_insert_color(tree, node) ==
  LET parent == tree.parent[node] IN
  IF parent = NULL
    THEN [tree EXCEPT !.red[node] = FALSE]
  ELSE IF ~tree.red[parent]
    THEN tree
  ELSE
    LET gparent == tree.parent[parent]
        a == IF parent = tree.left[gparent] THEN "left" ELSE "right"
        b == Other(a)
        uncle == tree[b][gparent]
    IN IF uncle # NULL /\ tree.red[uncle]
         THEN \* Case 1 - node's uncle is red (color flips)
              rb_insert_color([tree EXCEPT !.red[uncle] = FALSE,
                                           !.red[parent] = FALSE,
                                           !.red[gparent] = TRUE],
                              gparent)
         ELSE
           LET inner == (node = tree[b][parent])
               \* Case 2 - node is the inner child: rotate at parent
               tmp2 == tree[a][node]
               t2 == IF inner
                       THEN rb_set_parent_color(
                              [tree EXCEPT ![b][parent] = tmp2,
                                           ![a][node] = parent,
                                           !.parent[parent] = node,
                                           !.red[parent] = TRUE],
                              tmp2, parent, FALSE)
                       ELSE tree
               par == IF inner THEN node ELSE parent
               \* Case 3 - node is the outer child: rotate at gparent
               tmp3 == t2[b][par]
               t3 == rb_set_parent_color(
                       [t2 EXCEPT ![a][gparent] = tmp3, ![b][par] = gparent],
                       tmp3, gparent, FALSE)
           IN rb_rotate_set_parents(t3, gparent, par, TRUE)

\* ____rb_erase_color(): node (NULL at first) is the child of parent whose
\* paths are one black node short
RECURSIVE rb_erase_color(_, _, _)
rb_erase_color(tree, node, parent) ==
  LET a == IF node # tree.right[parent] THEN "left" ELSE "right"
      b == Other(a)
      sib0 == tree[b][parent]
      \* Case 1 - red sibling: rotate at parent
      c1 == tree.red[sib0]
      tmp1a == tree[a][sib0]
      t1 == IF c1
              THEN rb_rotate_set_parents(
                     rb_set_parent_color(
                       [tree EXCEPT ![b][parent] = tmp1a, ![a][sib0] = parent],
                       tmp1a, parent, FALSE),
                     parent, sib0, TRUE)
              ELSE tree
      sibling == IF c1 THEN tmp1a ELSE sib0
      far == t1[b][sibling]
      near == t1[a][sibling]
  IN IF far = NULL \/ ~t1.red[far]
       THEN IF near = NULL \/ ~t1.red[near]
              THEN \* Case 2 - sibling color flip
                   LET t2 == [t1 EXCEPT !.parent[sibling] = parent,
                                        !.red[sibling] = TRUE]
                   IN IF t2.red[parent]
                        THEN [t2 EXCEPT !.red[parent] = FALSE]
                        ELSE IF t2.parent[parent] # NULL
                               THEN rb_erase_color(t2, parent, t2.parent[parent])
                               ELSE t2
              ELSE \* Case 3 - rotate at sibling, then Case 4
                   LET tmp3 == t1[b][near]
                       t3 == rb_set_parent_color(
                               [t1 EXCEPT ![a][sibling] = tmp3,
                                          ![b][near] = sibling,
                                          ![b][parent] = near],
                               tmp3, sibling, FALSE)
                       \* Case 4 with sibling = near, tmp1 = old sibling
                       tmp4 == t3[a][near]
                       t4 == rb_set_parent(
                               rb_set_parent_color(
                                 [t3 EXCEPT ![b][parent] = tmp4,
                                            ![a][near] = parent],
                                 sibling, near, FALSE),
                               tmp4, parent)
                   IN rb_rotate_set_parents(t4, parent, near, FALSE)
       ELSE \* Case 4 - rotate at parent + color flips
            LET tmp4 == t1[a][sibling]
                t4 == rb_set_parent(
                        rb_set_parent_color(
                          [t1 EXCEPT ![b][parent] = tmp4,
                                     ![a][sibling] = parent],
                          far, sibling, FALSE),
                        tmp4, parent)
            IN rb_rotate_set_parents(t4, parent, sibling, FALSE)

\* leftmost node of the subtree under n
RECURSIVE rb_leftmost(_, _)
rb_leftmost(tree, n) ==
  IF tree.left[n] = NULL THEN n ELSE rb_leftmost(tree, tree.left[n])

\* the links of node are dropped from the maps once it is out of the tree
rb_forget(tree, node) ==
  LET rest == Nodes(tree) \ {node} IN
  [root |-> tree.root,
   left |-> [n \in rest |-> tree.left[n]],
   right |-> [n \in rest |-> tree.right[n]],
   parent |-> [n \in rest |-> tree.parent[n]],
   red |-> [n \in rest |-> tree.red[n]]]

\* rb_erase(): __rb_erase_augmented() followed by ____rb_erase_color()
rb_erase(tree, node) ==
  LET child == tree.right[node]
      tmp == tree.left[node]
      nparent == tree.parent[node]
      nred == tree.red[node]
      res ==
        IF tmp = NULL THEN
          \* Case 1: node to erase has no more than 1 child
          LET t1 == rb_change_child(tree, node, child, nparent)
          IN IF child # NULL
               THEN [t |-> rb_set_parent_color(t1, child, nparent, nred),
                     rebalance |-> NULL]
               ELSE [t |-> t1,
                     rebalance |-> IF nred THEN NULL ELSE nparent]
        ELSE IF child = NULL THEN
          \* Still case 1, but this time the child is node->rb_left
          [t |-> rb_change_child(
                   rb_set_parent_color(tree, tmp, nparent, nred),
                   node, tmp, nparent),
           rebalance |-> NULL]
        ELSE
          LET successor == rb_leftmost(tree, child)
              \* Case 2: successor is the right child; Case 3: it is the
              \* leftmost node under the right child
              direct == (successor = child)
              parent == IF direct THEN successor ELSE tree.parent[successor]
              child2 == tree.right[successor]
              sred == tree.red[successor]
              t3 == IF direct THEN tree
                    ELSE rb_set_parent(
                           [tree EXCEPT !.left[parent] = child2,
                                        !.right[successor] = child],
                           child, successor)
              t4 == rb_set_parent([t3 EXCEPT !.left[successor] = tmp],
                                  tmp, successor)
              t5 == rb_change_child(t4, node, successor, nparent)
              t6 == [t5 EXCEPT !.parent[successor] = nparent,
                               !.red[successor] = nred]
          IN IF child2 # NULL
               THEN [t |-> rb_set_parent_color(t6, child2, parent, FALSE),
                     rebalance |-> NULL]
               ELSE [t |-> t6,
                     rebalance |-> IF sred THEN NULL ELSE parent]
      cut == rb_forget(res.t, node)
  IN IF res.rebalance # NULL
       THEN rb_erase_color(cut, NULL, res.rebalance)
       ELSE cut

\* rb_first(): the leftmost node, NULL in an empty tree
rb_first(tree) ==
  IF tree.root = NULL THEN NULL ELSE rb_leftmost(tree, tree.root)

(***************************************************************************)
(* Helpers of ztier.c on trees of struct ztier_chunk                       *)
(***************************************************************************)
RECURSIVE ceil_walk(_, _, _)
ceil_walk(tree, node, chunk) ==
  IF node = NULL THEN NULL
  ELSE IF node < chunk THEN ceil_walk(tree, tree.right[node], chunk)
  ELSE IF node = chunk THEN node
  ELSE \* node > chunk
       IF tree.left[node] = NULL THEN node
       ELSE IF tree.left[node] < chunk THEN node
       ELSE ceil_walk(tree, tree.left[node], chunk)

\* ztier_rb_ceil(): "the least element of the tree that is >= chunk"
ztier_rb_ceil(tree, chunk) == ceil_walk(tree, tree.root, chunk)

RECURSIVE floor_walk(_, _, _)
floor_walk(tree, node, chunk) ==
  IF node = NULL THEN NULL
  ELSE IF node > chunk THEN floor_walk(tree, tree.left[node], chunk)
  ELSE IF node = chunk THEN node
  ELSE \* node < chunk
       IF tree.right[node] = NULL THEN node
       ELSE IF tree.right[node] > chunk THEN node
       ELSE floor_walk(tree, tree.right[node], chunk)

\* ztier_rb_floor(): "the greatest element of the tree that is <= chunk"
ztier_rb_floor(tree, chunk) == floor_walk(tree, tree.root, chunk)

\* ztier_rb_contains(): rb_entry(NULL) is NULL, the node is the first member
ztier_rb_contains(tree, chunk) == ztier_rb_floor(tree, chunk) = chunk

\* the search loop of ztier_rb_insert(): where the new node is linked, or
\* bug when the chunk itself is met on the way down (BUG_ON(chunk == new_chunk))
RECURSIVE insert_link(_, _, _, _, _)
insert_link(tree, link, parent, dir, new_chunk) ==
  IF link = NULL THEN [parent |-> parent, dir |-> dir, bug |-> FALSE]
  ELSE IF link > new_chunk
         THEN insert_link(tree, tree.left[link], link, "left", new_chunk)
       ELSE IF link = new_chunk
         THEN [parent |-> link, dir |-> "right", bug |-> TRUE]
       ELSE insert_link(tree, tree.right[link], link, "right", new_chunk)

\* BUG() in ztier_rb_insert()
ztier_rb_insert_bug(tree, new_chunk) ==
  insert_link(tree, tree.root, NULL, "left", new_chunk).bug

\* ztier_rb_insert(): rb_link_node() at the place found, rb_insert_color()
ztier_rb_insert(tree, new_chunk) ==
  LET at == insert_link(tree, tree.root, NULL, "left", new_chunk)
      fresh == (new_chunk :> NULL)
      linked == [root |-> IF at.parent = NULL THEN new_chunk ELSE tree.root,
                 left |-> (IF at.parent # NULL /\ at.dir = "left"
                             THEN [tree.left EXCEPT ![at.parent] = new_chunk]
                             ELSE tree.left) @@ fresh,
                 right |-> (IF at.parent # NULL /\ at.dir = "right"
                              THEN [tree.right EXCEPT ![at.parent] = new_chunk]
                              ELSE tree.right) @@ fresh,
                 parent |-> tree.parent @@ (new_chunk :> at.parent),
                 red |-> tree.red @@ (new_chunk :> TRUE)]
  IN rb_insert_color(linked, new_chunk)

\* the `to` argument of ztier_rb_move_range() when the chunks are discarded
NO_TREE == [discard |-> TRUE]

\* ztier_rb_move_range(): move from `from` to `to` all entries >= start and
\* < after, seeking again from start after each removal
RECURSIVE ztier_rb_move_range(_, _, _, _)
ztier_rb_move_range(from, to, start, after) ==
  LET node == ztier_rb_ceil(from, start) IN
  IF node = NULL \/ node >= after
    THEN [from |-> from, to |-> to, bug |-> FALSE]
  ELSE IF to # NO_TREE /\ ztier_rb_insert_bug(to, node)
    THEN [from |-> rb_erase(from, node), to |-> to, bug |-> TRUE]
  ELSE ztier_rb_move_range(rb_erase(from, node),
                           IF to = NO_TREE THEN to ELSE ztier_rb_insert(to, node),
                           start, after)

\* the chunk addresses of a page carved for a tier
ChunksOf(vaddr, tier) ==
  {vaddr + i * TIER_SIZES[tier] : i \in 0..((PAGE_SIZE \div TIER_SIZES[tier]) - 1)}

(***************************************************************************)
(* Bounds of the model                                                     *)
(***************************************************************************)
\* page frames the host page allocator can hand out
NumPages == 2

\* handles the users hold at any one time (allocations in flight included)
MaxLive == 2

\* threads calling into the pool
NumThreads == 2

\* largest retry budget passed to ztier_reclaim_page()
MaxRetries == 2

PageAddrs == {p * PAGE_SIZE : p \in 1..NumPages}

Threads == 1..NumThreads

Tiers == 0..(NUM_TIERS - 1)

\* sizes asked of ztier_alloc(): invalid, one per tier with and without
\* slack, and one beyond the largest tier
AllocSizes == {0, 256, 1000, 1024, 2048, 2049}

\* the same for the reclaim workload
Tier0Pages == 3

Tier0Live == 2

Tier0Threads == 3

Tier0Retries == 1

Tier0PageAddrs == {p * PAGE_SIZE : p \in 1..Tier0Pages}

\* the same for the workload of a single caller
SerialPages == 3

SerialLive == 5

SerialRetries == 3

SerialPageAddrs == {p * PAGE_SIZE : p \in 1..SerialPages}

SerialSizes == {2048}

\* the same for the workload of a single caller over all the tiers
TiersPages == 2

TiersLive == 3

TiersRetries == 3

TiersPageAddrs == {p * PAGE_SIZE : p \in 1..TiersPages}

TiersSizes == {256, 1024, 2048}

Tier0Sizes == {2048}

(***************************************************************************)
(* State                                                                   *)
(***************************************************************************)
VARIABLES
  free_lists,     \* pool->free_lists[tier]: tree of free chunks
  under_reclaim,  \* pool->under_reclaim: tree of chunks of pages in reclaim
  used_pages,     \* pool->used_pages[tier]: list of pages, head first
  size,           \* pool->size
  ops,            \* pool->ops: "evict" when an eviction handler is registered
  ztier_private,  \* page->ztier_private of every page frame: tier and flag
  host_free,      \* page frames held by the host page allocator
  live,           \* handles returned by ztier_alloc() and not yet freed
  th,             \* per thread: where it is in its call, and its locals
  event,          \* what the last step returned or called
  stale,          \* nodes under_reclaim still links whose page was freed
  bug,            \* the BUG() or fault that stopped the kernel, or "none"
  evicted,        \* history: per thread, the handles its ztier_reclaim_page()
                  \* call has passed to pool->ops->evict() so far, in order
  all_free,       \* history: per thread, whether every chunk of the page it
                  \* has under reclaim was free when the page was selected
  before,         \* history: the free chunks of each tier when the ztier_alloc()
                  \* call that is in flight or has just returned was made
  inserted,       \* history: the pages on the used_pages lists, in the order
                  \* of their last list_add(), earliest first
  holder          \* the thread that holds pool->lock, 0 when it is free, where
                  \* spin_lock() and spin_unlock() are steps of their own

vars == <<free_lists, under_reclaim, used_pages, size, ops, ztier_private,
          host_free, live, th, event, stale, bug, evicted, all_free, before,
          inserted, holder>>

\* page->ztier_private of a page that is not in a pool: 0xDEADBEEF, flag bit
\* clear and a tier field beyond NUM_TIERS (its low half 0xBEEF stands for
\* it here, integers of the model being 32 bits wide)
DEADBEEF == [tier |-> 48879, reclaim |-> FALSE]

\* no ztier_alloc() call is remembered
NoBefore == <<>>

\* budget is the retries argument of the call
Idle == [pc |-> "idle", size |-> 0, tier |-> 0, page |-> NULL, retries |-> 0,
         current_tier |-> 0, current_page |-> NULL, reclaim_tier |-> 0,
         i |-> 0, budget |-> 0]

\* what a step did: the call and its result (ret), what it returned or was
\* given (arg), the size or retries argument (req), the __GFP_HIGHMEM bit of
\* gfp, and whether the step took pool->lock
Event(op, ret, arg, req) ==
  [op |-> op, ret |-> ret, arg |-> arg, req |-> req, highmem |-> FALSE,
   lock |-> TRUE]

Unlocked(e) == [e EXCEPT !.lock = FALSE]

NoEvent == Unlocked(Event("none", 0, 0, 0))

\* the pool and the page descriptors as one value, for the helpers below
Pool == [free_lists |-> free_lists, under_reclaim |-> under_reclaim,
         used_pages |-> used_pages, size |-> size,
         ztier_private |-> ztier_private, stale |-> stale,
         bug |-> "none", freed |-> NULL]

SetPool(P) ==
  /\ free_lists' = P.free_lists
  /\ under_reclaim' = P.under_reclaim
  /\ used_pages' = P.used_pages
  /\ size' = P.size
  /\ ztier_private' = P.ztier_private

\* ztier_create_pool()
Init ==
  /\ free_lists = [tier \in Tiers |-> RB_ROOT]
  /\ under_reclaim = RB_ROOT
  /\ used_pages = [tier \in Tiers |-> <<>>]
  /\ size = 0
  /\ ops \in {"none", "evict"}
  /\ ztier_private = [page \in PageAddrs |-> DEADBEEF]
  /\ host_free = PageAddrs
  /\ live = {}
  /\ th = [t \in Threads |-> Idle]
  /\ event = NoEvent
  /\ stale = {}
  /\ bug = "none"
  /\ evicted = [t \in Threads |-> <<>>]
  /\ all_free = [t \in Threads |-> FALSE]
  /\ before = NoBefore
  /\ inserted = <<>>
  /\ holder = 0

(***************************************************************************)
(* Lists of pages (struct list_head), head first                           *)
(***************************************************************************)
list_add(list, page) == <<page>> \o list

\* a list_del() that leaves the page on its list
list_del_keeps(list, page) == list

list_del(list, page) == SelectSeq(list, LAMBDA q : q # page)

list_last_entry(list) == list[Len(list)]

list_rotate_left(list) ==
  IF list = <<>> THEN list ELSE Tail(list) \o <<Head(list)>>

(***************************************************************************)
(* Pool helpers.  Each takes the pool value P and returns the new one; a   *)
(* BUG() that fires is reported in P.bug.                                  *)
(***************************************************************************)
Bug(P, what) == [P EXCEPT !.bug = what]

\* A node of under_reclaim whose page went back to the page allocator lies
\* in memory the pool no longer owns (overwritten with 0xDD, then reused by
\* whoever gets the page).  What a walk or an update of under_reclaim does
\* from then on is undefined; the model stops at the first one.
UseAfterFree(P) == P.stale # {}

UAF == "under_reclaim: use after free"

\* the loop of ztier_init_page(): insert the chunks at offsets i, i + size, ...
\* a loop that inserts no chunk
init_chunks_none(tree, vaddr, i, tier) == [tree |-> tree, bug |-> FALSE]

RECURSIVE init_chunks(_, _, _, _)
init_chunks(tree, vaddr, i, tier) ==
  IF i >= PAGE_SIZE THEN [tree |-> tree, bug |-> FALSE]
  ELSE IF ztier_rb_insert_bug(tree, chunk_struct(vaddr + i))
    THEN [tree |-> tree, bug |-> TRUE]
  ELSE init_chunks(ztier_rb_insert(tree, chunk_struct(vaddr + i)),
                   vaddr, i + TIER_SIZES[tier], tier)

\* ztier_init_page()
ztier_init_page(P, page, tier) ==
  IF P.ztier_private[page] # DEADBEEF
    THEN Bug(P, "init_page: ztier_private")
  ELSE
    LET carved(r) ==
          IF r.bug THEN Bug(P, "rb_insert: chunk in tree")
          ELSE [P EXCEPT
                  !.ztier_private[page] = [tier |-> tier, reclaim |-> FALSE],
                  !.used_pages[tier] = list_add(@, page),
                  !.free_lists[tier] = r.tree]
    IN carved(init_chunks(P.free_lists[tier], page, 0, tier))

\* an emptiness test that looks at the first tier only
ztier_all_tiers_empty_tier0(P) == P.used_pages[0] = <<>>

\* ztier_all_tiers_empty()
ztier_all_tiers_empty(P) == \A tier \in Tiers : P.used_pages[tier] = <<>>

\* a selection that starts at the last tier that has pages
ztier_reclaim_select_page_last_tier(P, current_tier, current_page) ==
  LET none == [P |-> P, chosen |-> NULL, current_tier |-> current_tier,
               current_page |-> current_page, hang |-> FALSE]
      full == {tier \in Tiers : P.used_pages[tier] # <<>>}
  IN IF full = {} THEN [none EXCEPT !.current_tier = current_tier + 1]
     ELSE
       LET c == CHOOSE tier \in full : \A d \in full : d <= tier
           chosen == list_last_entry(P.used_pages[c])
       IN IF P.ztier_private[chosen].reclaim \/ chosen = current_page
            THEN [none EXCEPT !.current_tier = current_tier + 1]
          ELSE [P |-> [P EXCEPT !.used_pages[c] = list_rotate_left(@)],
                chosen |-> chosen, current_tier |-> c,
                current_page |-> chosen, hang |-> FALSE]

\* a selection that does not remember the page it chose last
ztier_reclaim_select_page_forgets(P, current_tier, current_page) ==
  LET none == [P |-> P, chosen |-> NULL, current_tier |-> current_tier,
               current_page |-> current_page, hang |-> FALSE]
  IN IF current_tier >= NUM_TIERS THEN none
     ELSE IF P.used_pages[current_tier] = <<>>
       THEN [none EXCEPT !.current_tier = current_tier + 1]
     ELSE
       LET chosen == list_last_entry(P.used_pages[current_tier]) IN
       IF P.ztier_private[chosen].reclaim
         THEN [none EXCEPT !.hang = TRUE]
       ELSE [P |-> [P EXCEPT !.used_pages[current_tier] = list_rotate_left(@)],
             chosen |-> chosen, current_tier |-> current_tier,
             current_page |-> chosen, hang |-> FALSE]

\* ztier_reclaim_select_page(): chosen is the page or NULL; hang is the
\* `continue` on a flagged page at the tail, which never leaves the loop
ztier_reclaim_select_page(P, current_tier, current_page) ==
  LET none == [P |-> P, chosen |-> NULL, current_tier |-> current_tier,
               current_page |-> current_page, hang |-> FALSE]
  IN IF current_tier >= NUM_TIERS THEN none
     ELSE IF P.used_pages[current_tier] = <<>>
       THEN [none EXCEPT !.current_tier = current_tier + 1]
     ELSE
       LET chosen == list_last_entry(P.used_pages[current_tier]) IN
       IF P.ztier_private[chosen].reclaim
         THEN [none EXCEPT !.hang = TRUE]
       ELSE IF chosen = current_page
         THEN [none EXCEPT !.current_tier = current_tier + 1]
       ELSE [P |-> [P EXCEPT !.used_pages[current_tier] = list_rotate_left(@)],
             chosen |-> chosen, current_tier |-> current_tier,
             current_page |-> chosen, hang |-> FALSE]

\* ztier_page_chunks_under_reclaim()
ztier_page_chunks_under_reclaim(P, page) ==
  LET tier == P.ztier_private[page].tier
      moved(m) ==
        IF (m.bug \/ m.to # P.under_reclaim) /\ UseAfterFree(P)
          THEN Bug(P, UAF)
        ELSE IF m.bug THEN Bug(P, "rb_insert: chunk in tree")
        ELSE [P EXCEPT !.free_lists[tier] = m.from, !.under_reclaim = m.to]
  IN moved(ztier_rb_move_range(P.free_lists[tier], P.under_reclaim,
                               page, page + PAGE_SIZE))

\* ztier_page_chunks_from_under_reclaim()
ztier_page_chunks_from_under_reclaim(P, page) ==
  LET tier == P.ztier_private[page].tier
      moved(m) ==
        IF UseAfterFree(P) THEN Bug(P, UAF)
        ELSE IF m.bug THEN Bug(P, "rb_insert: chunk in tree")
        ELSE [P EXCEPT !.under_reclaim = m.from, !.free_lists[tier] = m.to]
  IN moved(ztier_rb_move_range(P.under_reclaim, P.free_lists[tier],
                               page, page + PAGE_SIZE))

\* a test loop that is satisfied by one chunk of the page in under_reclaim
all_chunks_contained_some(P, page) ==
  \E handle \in ChunksOf(page, P.ztier_private[page].tier) :
     ztier_rb_contains(P.under_reclaim, chunk_struct(handle))

\* the test loop of ztier_page_chunks_reclaimed(): every chunk of the page
\* is found in under_reclaim
all_chunks_contained(P, page) ==
  \A handle \in ChunksOf(page, P.ztier_private[page].tier) :
     ztier_rb_contains(P.under_reclaim, chunk_struct(handle))

\* a ztier_page_chunks_reclaimed() that takes two pages off pool->size
ztier_page_chunks_reclaimed_counts_twice(P, page) ==
  IF UseAfterFree(P) THEN Bug(P, UAF)
  ELSE IF ~all_chunks_contained(P, page) THEN P
  ELSE IF P.size < PAGE_SIZE THEN Bug(P, "chunks_reclaimed: size")
  ELSE [P EXCEPT !.under_reclaim =
                   ztier_rb_move_range(@, NO_TREE, chunk_struct(page),
                                       chunk_struct(page + PAGE_SIZE)).from,
                 !.ztier_private[page] = DEADBEEF,
                 !.freed = page,
                 !.size = @ - 2 * PAGE_SIZE]

\* a ztier_page_chunks_reclaimed() that frees the page and leaves pool->size
ztier_page_chunks_reclaimed_keeps_size(P, page) ==
  IF UseAfterFree(P) THEN Bug(P, UAF)
  ELSE IF ~all_chunks_contained(P, page) THEN P
  ELSE [P EXCEPT !.under_reclaim =
                   ztier_rb_move_range(@, NO_TREE, chunk_struct(page),
                                       chunk_struct(page + PAGE_SIZE)).from,
                 !.ztier_private[page] = DEADBEEF,
                 !.freed = page]

\* ztier_page_chunks_reclaimed(): P.freed is the page given to __free_page()
ztier_page_chunks_reclaimed(P, page) ==
  IF UseAfterFree(P) THEN Bug(P, UAF)
  ELSE IF ~all_chunks_contained(P, page) THEN P
  ELSE IF P.size < PAGE_SIZE THEN Bug(P, "chunks_reclaimed: size")
  ELSE [P EXCEPT !.under_reclaim =
                   ztier_rb_move_range(@, NO_TREE, chunk_struct(page),
                                       chunk_struct(page + PAGE_SIZE)).from,
                 !.ztier_private[page] = DEADBEEF,
                 !.freed = page,
                 !.size = @ - PAGE_SIZE]

\* the nodes of a tree that lie in the given page frames
Dangling(tree, frames) == {n \in Nodes(tree) : page_of(n) \in frames}

\* sanity checks that let a highmem request through
sanity_checks_size_only(sz, highmem) ==
  IF sz = 0 THEN EINVAL
  ELSE IF sz > TIER_SIZES[0] THEN ENOSPC
  ELSE 0

\* the sanity checks of ztier_alloc(), made before the lock is taken: the
\* errno it returns, or 0
sanity_checks(sz, highmem) ==
  IF sz = 0 \/ highmem THEN EINVAL
  ELSE IF sz > TIER_SIZES[0] THEN ENOSPC
  ELSE 0

\* a tier loop that stops at the first tier the size fits in, from TIER0 up
choose_tier_from_tier0(sz, tier) ==
  IF sz <= TIER_SIZES[0] THEN 0 ELSE NUM_TIERS

\* the tier loop of ztier_alloc(): the smallest tier the size fits in
RECURSIVE choose_tier(_, _)
choose_tier(sz, tier) ==
  IF tier < 0 THEN NUM_TIERS
  ELSE IF sz <= TIER_SIZES[tier] THEN tier
  ELSE choose_tier(sz, tier - 1)

\* a ztier_free() that puts every chunk in the free list of tier 0
ztier_free_to_tier0(P, handle) ==
  LET chunk == chunk_struct(handle)
  IN IF ztier_rb_insert_bug(P.free_lists[0], chunk)
       THEN Bug(P, "rb_insert: chunk in tree")
       ELSE [P EXCEPT !.free_lists[0] = ztier_rb_insert(@, chunk)]

\* a ztier_free() that takes every chunk to be under reclaim
ztier_free_to_under_reclaim(P, handle) ==
  LET chunk == chunk_struct(handle)
  IN IF ztier_rb_insert_bug(P.under_reclaim, chunk)
       THEN Bug(P, "rb_insert: chunk in tree")
       ELSE [P EXCEPT !.under_reclaim = ztier_rb_insert(@, chunk)]

\* a ztier_free() that does not look at RECLAIM_FLAG
ztier_free_to_free_list(P, handle) ==
  LET chunk == chunk_struct(handle)
      tier == P.ztier_private[page_of(handle)].tier
  IN IF ztier_rb_insert_bug(P.free_lists[tier], chunk)
       THEN Bug(P, "rb_insert: chunk in tree")
       ELSE [P EXCEPT !.free_lists[tier] = ztier_rb_insert(@, chunk)]

\* ztier_free(), the part under the lock
ztier_free(P, handle) ==
  LET page == page_of(handle)
      chunk == chunk_struct(handle)
      tier == P.ztier_private[page].tier
      is_reclaim == P.ztier_private[page].reclaim
  IN IF tier >= NUM_TIERS THEN Bug(P, "free: tier")
     ELSE IF handle % TIER_SIZES[tier] # 0 THEN Bug(P, "free: alignment")
     ELSE IF is_reclaim
       THEN IF UseAfterFree(P) THEN Bug(P, UAF)
            ELSE IF ztier_rb_insert_bug(P.under_reclaim, chunk)
              THEN Bug(P, "rb_insert: chunk in tree")
              ELSE [P EXCEPT !.under_reclaim = ztier_rb_insert(@, chunk)]
     ELSE IF ztier_rb_insert_bug(P.free_lists[tier], chunk)
            THEN Bug(P, "rb_insert: chunk in tree")
            ELSE [P EXCEPT !.free_lists[tier] = ztier_rb_insert(@, chunk)]

\* a ztier_reclaim_page() that detaches its victim without setting RECLAIM_FLAG
reclaim_attempt_sets_no_flag(P, L) ==
  IF L.retries = 0
    THEN [P |-> P, L |-> L, ret |-> EAGAIN]
  ELSE IF L.current_tier >= NUM_TIERS
    THEN [P |-> Bug(P, "reclaim_page: current_tier"), L |-> L, ret |-> 0]
  ELSE
    LET s == ztier_reclaim_select_page(P, L.current_tier, L.current_page)
        L1 == [L EXCEPT !.retries = @ - 1,
                        !.current_tier = s.current_tier,
                        !.current_page = s.current_page]
    IN IF s.hang
         THEN [P |-> Bug(P, "select_page: spins on flagged page"),
               L |-> L1, ret |-> 0]
       ELSE IF s.chosen = NULL
         THEN [P |-> s.P, L |-> L1, ret |-> EAGAIN]
       ELSE
         LET page == s.chosen
             tier == s.P.ztier_private[page].tier
         IN [P |-> ztier_page_chunks_under_reclaim(
                     [s.P EXCEPT
                        !.used_pages[s.current_tier] = list_del(@, page)],
                     page),
             L |-> [L1 EXCEPT !.pc = "scan", !.page = page,
                              !.reclaim_tier = tier, !.tier = tier, !.i = 0],
             ret |-> 0]

\* ztier_reclaim_page(), from the top of the retry loop to the unlock before
\* the evictions (or to a return): L holds the locals of the call
reclaim_attempt(P, L) ==
  IF L.retries = 0
    THEN [P |-> P, L |-> L, ret |-> EAGAIN]
  ELSE IF L.current_tier >= NUM_TIERS
    THEN [P |-> Bug(P, "reclaim_page: current_tier"), L |-> L, ret |-> 0]
  ELSE
    LET s == ztier_reclaim_select_page(P, L.current_tier, L.current_page)
        L1 == [L EXCEPT !.retries = @ - 1,
                        !.current_tier = s.current_tier,
                        !.current_page = s.current_page]
    IN IF s.hang
         THEN [P |-> Bug(P, "select_page: spins on flagged page"),
               L |-> L1, ret |-> 0]
       ELSE IF s.chosen = NULL
         THEN [P |-> s.P, L |-> L1, ret |-> EAGAIN]
       ELSE
         LET page == s.chosen
             tier == s.P.ztier_private[page].tier
         IN [P |-> ztier_page_chunks_under_reclaim(
                     [s.P EXCEPT
                        !.ztier_private[page].reclaim = TRUE,
                        !.used_pages[s.current_tier] = list_del(@, page)],
                     page),
             L |-> [L1 EXCEPT !.pc = "scan", !.page = page,
                              !.reclaim_tier = tier, !.tier = tier, !.i = 0],
             ret |-> 0]

(***************************************************************************)
(* Actions.  spin_lock(&pool->lock) .. spin_unlock() is one step; a call   *)
(* that drops the lock in the middle takes one step per critical section.  *)
(***************************************************************************)
\* a BUG() stops the machine
Halt(what) ==
  /\ bug' = what
  /\ UNCHANGED <<free_lists, under_reclaim, used_pages, size, ops,
                 ztier_private, host_free, live, th, event, stale>>

\* the threads are interchangeable: a call starts on the first idle one
CanStart(t) ==
  /\ bug = "none"
  /\ th[t].pc = "idle"
  /\ \A u \in DOMAIN th : u < t => th[u].pc # "idle"

InAlloc == {t \in DOMAIN th : th[t].pc \in {"alloc_page", "alloc_init"}}

\* a ztier_alloc() that asks for a page without looking at the free list
Alloc_without_search(t, sz, highmem, max_live) ==
  /\ CanStart(t)
  /\ Cardinality(live) + Cardinality(InAlloc) < max_live
  /\ IF sanity_checks(sz, highmem) # 0
       THEN /\ event' = Unlocked([Event("alloc", -sanity_checks(sz, highmem),
                                          NULL, sz)
                                     EXCEPT !.highmem = highmem])
            /\ UNCHANGED th
     ELSE /\ th' = [th EXCEPT ![t] = [Idle EXCEPT !.pc = "alloc_page",
                                                  !.size = sz,
                                                  !.tier = choose_tier(sz, NUM_TIERS - 1)]]
          /\ event' = Event("alloc_grow", 0, NULL, sz)
  /\ UNCHANGED <<free_lists, live, under_reclaim, used_pages, size, ops,
                 ztier_private, host_free, stale, bug>>

\* ztier_alloc() up to the first unlock: argument checks, tier choice, and
\* either a chunk from the free list or the way to alloc_page(); the users
\* hold at most max_live handles
Alloc(t, sz, highmem, max_live) ==
  /\ CanStart(t)
  /\ Cardinality(live) + Cardinality(InAlloc) < max_live
  /\ IF sanity_checks(sz, highmem) # 0
       THEN /\ event' = Unlocked([Event("alloc", -sanity_checks(sz, highmem),
                                          NULL, sz)
                                     EXCEPT !.highmem = highmem])
            /\ UNCHANGED <<free_lists, live, th>>
     ELSE
       LET tier == choose_tier(sz, NUM_TIERS - 1)
           free == rb_first(free_lists[tier])
       IN IF free # NULL
            THEN /\ free_lists' = [free_lists EXCEPT ![tier] = rb_erase(@, free)]
                 /\ live' = live \cup {struct_chunk(free)}
                 /\ event' = [Event("alloc", 0, struct_chunk(free), sz)
                                 EXCEPT !.highmem = highmem]
                 /\ UNCHANGED th
            ELSE /\ th' = [th EXCEPT ![t] = [Idle EXCEPT !.pc = "alloc_page",
                                                         !.size = sz,
                                                         !.tier = tier]]
                 /\ event' = Event("alloc_grow", 0, NULL, sz)
                 /\ UNCHANGED <<free_lists, live>>
  /\ UNCHANGED <<under_reclaim, used_pages, size, ops, ztier_private,
                 host_free, stale, bug>>

\* an allocation that adds the page to pool->size before it has the page
AllocPage_counts_first(t) ==
  /\ bug = "none"
  /\ th[t].pc = "alloc_page"
  /\ size' = size + PAGE_SIZE
  /\ \/ /\ th' = [th EXCEPT ![t] = Idle]
        /\ event' = Unlocked(Event("alloc", -ENOMEM, NULL, th[t].size))
        /\ UNCHANGED host_free
     \/ \E page \in host_free :
          /\ host_free' = host_free \ {page}
          /\ th' = [th EXCEPT ![t].pc = "alloc_init", ![t].page = page]
          /\ event' = Unlocked(Event("alloc_page", 0, page, 0))
  /\ UNCHANGED <<free_lists, under_reclaim, used_pages, ops,
                 ztier_private, live, stale, bug>>

\* alloc_page(gfp), called without the lock: a page frame, or NULL
AllocPage(t) ==
  /\ bug = "none"
  /\ th[t].pc = "alloc_page"
  /\ \/ /\ th' = [th EXCEPT ![t] = Idle]
        /\ event' = Unlocked(Event("alloc", -ENOMEM, NULL, th[t].size))
        /\ UNCHANGED host_free
     \/ \E page \in host_free :
          /\ host_free' = host_free \ {page}
          /\ th' = [th EXCEPT ![t].pc = "alloc_init", ![t].page = page]
          /\ event' = Unlocked(Event("alloc_page", 0, page, 0))
  /\ UNCHANGED <<free_lists, under_reclaim, used_pages, size, ops,
                 ztier_private, live, stale, bug>>

\* ztier_alloc() after alloc_page(): carve the page, take the first chunk
AllocInit(t) ==
  /\ bug = "none"
  /\ th[t].pc = "alloc_init"
  /\ \E P1 \in {ztier_init_page(Pool, th[t].page, th[t].tier)} :
     LET tier == th[t].tier
         free == rb_first(P1.free_lists[tier])
     IN IF P1.bug # "none" THEN Halt(P1.bug)
        ELSE IF free = NULL THEN Halt("alloc: BUG_ON(!free)")
        ELSE /\ SetPool([P1 EXCEPT !.size = @ + PAGE_SIZE,
                                   !.free_lists[tier] = rb_erase(@, free)])
             /\ live' = live \cup {struct_chunk(free)}
             /\ th' = [th EXCEPT ![t] = Idle]
             /\ event' = Event("alloc", 0, struct_chunk(free), th[t].size)
             /\ UNCHANGED <<ops, host_free, stale, bug>>

\* ztier_free() of a handle a user holds, from any context
Free(handle) ==
  /\ bug = "none"
  /\ handle \in live
  /\ \E P1 \in {ztier_free(Pool, handle)} :
        IF P1.bug # "none" THEN Halt(P1.bug)
        ELSE /\ SetPool(P1)
             /\ live' = live \ {handle}
             /\ event' = Event("free", 0, handle, 0)
             /\ UNCHANGED <<ops, host_free, th, stale, bug>>

\* the end of a critical section of ztier_reclaim_page() that ran the top of
\* the retry loop: r is the result of reclaim_attempt()
ReclaimGoOn(t, r) ==
  IF r.P.bug # "none" THEN Halt(r.P.bug)
  ELSE /\ SetPool(r.P)
       /\ IF r.ret # 0
            THEN /\ th' = [th EXCEPT ![t] = Idle]
                 /\ event' = Event("reclaim", -r.ret, NULL, r.L.budget)
            ELSE /\ th' = [th EXCEPT ![t] = r.L]
                 /\ event' = Event("quarantine", 0, r.L.page, 0)
       /\ UNCHANGED <<ops, host_free, live, stale, bug>>

\* ztier_reclaim_page() up to its first unlock
ReclaimStart(t, retries) ==
  /\ CanStart(t)
  /\ IF ops # "evict" \/ ztier_all_tiers_empty(Pool) \/ retries = 0
       THEN /\ event' = Event("reclaim", -EINVAL, NULL, retries)
            /\ UNCHANGED <<free_lists, under_reclaim, used_pages, size, ops,
                           ztier_private, host_free, live, th, stale, bug>>
       ELSE ReclaimGoOn(t, reclaim_attempt(Pool,
                             [Idle EXCEPT !.pc = "reclaim",
                                          !.retries = retries,
                                          !.budget = retries]))

\* ztier_attempt_evict_page_chunks(), one critical section: skip the chunks
\* found in under_reclaim, stop at the first that is not
ReclaimScan(t) ==
  /\ bug = "none"
  /\ th[t].pc = "scan"
  /\ LET page == th[t].page
         todo == {h \in ChunksOf(page, th[t].tier) :
                    /\ h >= page + th[t].i
                    /\ ~ztier_rb_contains(under_reclaim, chunk_struct(h))}
         next == CHOOSE h \in todo : \A g \in todo : h <= g
     IN IF th[t].i = 0 /\ ~ztier_private[page].reclaim
          THEN Halt("attempt_evict: RECLAIM_FLAG")
        ELSE IF UseAfterFree(Pool) THEN Halt(UAF)
        ELSE /\ IF todo = {}
                  THEN th' = [th EXCEPT ![t].pc = "verify", ![t].i = 0]
                  ELSE th' = [th EXCEPT ![t].pc = "evict", ![t].i = next - page]
             /\ event' = Event("scan", 0, NULL, 0)
             /\ UNCHANGED <<free_lists, under_reclaim, used_pages, size, ops,
                            ztier_private, host_free, live, stale, bug>>

\* pool->ops->evict(pool, handle), called without the lock.  The handler
\* returns non-zero and leaves the chunk alone, or returns 0: for a handle a
\* user holds it has then called ztier_free(); a handle that was freed in the
\* meantime it finds invalidated and leaves alone.
ReclaimEvict(t) ==
  /\ bug = "none"
  /\ th[t].pc = "evict"
  /\ \E handle \in {th[t].page + th[t].i} :
     \E P1 \in {IF handle \in live THEN ztier_free(Pool, handle) ELSE Pool} :
        \/ /\ th' = [th EXCEPT ![t].pc = "verify", ![t].i = 0]
           /\ event' = Unlocked(Event("evict", 1, handle, 0))
           /\ UNCHANGED <<free_lists, under_reclaim, used_pages, size, ops,
                          ztier_private, host_free, live, stale, bug>>
        \/ IF P1.bug # "none" THEN Halt(P1.bug)
           ELSE /\ SetPool(P1)
                /\ live' = live \ {handle}
                /\ th' = [th EXCEPT ![t].pc = "scan",
                                    ![t].i = @ + TIER_SIZES[th[t].tier]]
                /\ event' = IF handle \in live
                              THEN Event("evict", 0, handle, 0)
                              ELSE Unlocked(Event("evict", 0, handle, 0))
                /\ UNCHANGED <<ops, host_free, stale, bug>>

\* ztier_reclaim_page() after the evictions: free the page if all its chunks
\* are in under_reclaim, otherwise put it back and go round the retry loop
ReclaimVerify(t) ==
  /\ bug = "none"
  /\ th[t].pc = "verify"
  /\ \E P1 \in {ztier_page_chunks_reclaimed(Pool, th[t].page)} :
     LET L == th[t]
         page == L.page
     IN IF P1.bug # "none" THEN Halt(P1.bug)
        ELSE IF P1.freed # NULL
          THEN /\ SetPool(P1)
               /\ host_free' = host_free \cup {page}
               /\ th' = [th EXCEPT ![t] = Idle]
               /\ event' = Event("reclaim", 0, page, L.budget)
               /\ stale' = Dangling(P1.under_reclaim, {page})
               /\ UNCHANGED <<ops, live, bug>>
        ELSE IF L.reclaim_tier # L.current_tier
          THEN Halt("reclaim_page: reclaim_tier")
        ELSE ReclaimGoOn(t,
               reclaim_attempt(
                 ztier_page_chunks_from_under_reclaim(
                   [Pool EXCEPT
                      !.used_pages[L.reclaim_tier] = list_add(@, page),
                      !.ztier_private[page].reclaim = FALSE],
                   page),
                 [L EXCEPT !.pc = "reclaim"]))

\* most specifications keep no history
NoRecord == UNCHANGED <<evicted, all_free, before, inserted, holder>>

Next ==
  \/ \E t \in DOMAIN th, sz \in AllocSizes, highmem \in BOOLEAN :
       Alloc(t, sz, highmem, MaxLive) /\ NoRecord
  \/ \E t \in DOMAIN th : AllocPage(t) /\ NoRecord
  \/ \E t \in DOMAIN th : AllocInit(t) /\ NoRecord
  \/ \E handle \in live : Free(handle) /\ NoRecord
  \/ \E t \in DOMAIN th, retries \in 0..MaxRetries :
       ReclaimStart(t, retries) /\ NoRecord
  \/ \E t \in DOMAIN th : ReclaimScan(t) /\ NoRecord
  \/ \E t \in DOMAIN th : ReclaimEvict(t) /\ NoRecord
  \/ \E t \in DOMAIN th : ReclaimVerify(t) /\ NoRecord

Spec == Init /\ [][Next]_vars

(***************************************************************************)
(* The reclaim workload: ztier_reclaim_page() only ever selects pages of   *)
(* tier 0, so this specification asks for tier 0 chunks only and spends    *)
(* the bounds on threads and page frames instead.                          *)
(***************************************************************************)
InitTier0 ==
  /\ free_lists = [tier \in Tiers |-> RB_ROOT]
  /\ under_reclaim = RB_ROOT
  /\ used_pages = [tier \in Tiers |-> <<>>]
  /\ size = 0
  /\ ops = "evict"
  /\ ztier_private = [page \in Tier0PageAddrs |-> DEADBEEF]
  /\ host_free = Tier0PageAddrs
  /\ live = {}
  /\ th = [t \in 1..Tier0Threads |-> Idle]
  /\ event = NoEvent
  /\ stale = {}
  /\ bug = "none"
  /\ evicted = [t \in 1..Tier0Threads |-> <<>>]
  /\ all_free = [t \in 1..Tier0Threads |-> FALSE]
  /\ before = NoBefore
  /\ inserted = <<>>
  /\ holder = 0

NextTier0 ==
  \/ \E t \in DOMAIN th, sz \in Tier0Sizes :
       Alloc(t, sz, FALSE, Tier0Live) /\ NoRecord
  \/ \E t \in DOMAIN th : AllocPage(t) /\ NoRecord
  \/ \E t \in DOMAIN th : AllocInit(t) /\ NoRecord
  \/ \E handle \in live : Free(handle) /\ NoRecord
  \/ \E t \in DOMAIN th, retries \in 1..Tier0Retries :
       ReclaimStart(t, retries) /\ NoRecord
  \/ \E t \in DOMAIN th : ReclaimScan(t) /\ NoRecord
  \/ \E t \in DOMAIN th : ReclaimEvict(t) /\ NoRecord
  \/ \E t \in DOMAIN th : ReclaimVerify(t) /\ NoRecord

SpecTier0 == InitTier0 /\ [][NextTier0]_vars

(***************************************************************************)
(* The workload of a single caller: one thread makes the calls one after   *)
(* the other, the users free handles at any time (also while the caller is *)
(* inside ztier_reclaim_page() with the lock released), and the history of *)
(* each ztier_reclaim_page() call is recorded.                             *)
(***************************************************************************)
InitSerial ==
  /\ free_lists = [tier \in Tiers |-> RB_ROOT]
  /\ under_reclaim = RB_ROOT
  /\ used_pages = [tier \in Tiers |-> <<>>]
  /\ size = 0
  /\ ops = "evict"
  /\ ztier_private = [page \in SerialPageAddrs |-> DEADBEEF]
  /\ host_free = SerialPageAddrs
  /\ live = {}
  /\ th = [t \in {1} |-> Idle]
  /\ event = NoEvent
  /\ stale = {}
  /\ bug = "none"
  /\ evicted = [t \in {1} |-> <<>>]
  /\ all_free = [t \in {1} |-> FALSE]
  /\ before = NoBefore
  /\ inserted = <<>>
  /\ holder = 0

\* the history of a call: selecting a page notes whether all its chunks are
\* free, a call to the handler adds its handle, the return of
\* ztier_reclaim_page() forgets the call
Record ==
  /\ evicted' = [t \in DOMAIN th |->
                   IF th'[t].pc = "idle" THEN <<>>
                   ELSE IF th[t].pc = "evict" /\ th'[t].pc # "evict"
                     THEN Append(evicted[t], th[t].page + th[t].i)
                   ELSE evicted[t]]
  /\ all_free' = [t \in DOMAIN th |->
                    IF th'[t].pc = "idle" THEN FALSE
                    ELSE IF th[t].pc \in {"idle", "verify"} /\ th'[t].pc = "scan"
                      THEN live \cap ChunksOf(th'[t].page, th'[t].tier) = {}
                    ELSE all_free[t]]
  /\ UNCHANGED <<before, inserted, holder>>

NextSerial ==
  \/ \E t \in DOMAIN th, sz \in SerialSizes :
       Alloc(t, sz, FALSE, SerialLive) /\ Record
  \/ \E t \in DOMAIN th : AllocPage(t) /\ Record
  \/ \E t \in DOMAIN th : AllocInit(t) /\ Record
  \/ \E handle \in live : Free(handle) /\ Record
  \/ \E t \in DOMAIN th, retries \in 1..SerialRetries :
       ReclaimStart(t, retries) /\ Record
  \/ \E t \in DOMAIN th : ReclaimScan(t) /\ Record
  \/ \E t \in DOMAIN th : ReclaimEvict(t) /\ Record
  \/ \E t \in DOMAIN th : ReclaimVerify(t) /\ Record

SpecSerial == InitSerial /\ [][NextSerial]_vars

(***************************************************************************)
(* The same single caller with chunks of every tier, on fewer page frames. *)
(***************************************************************************)
InitTiers ==
  /\ free_lists = [tier \in Tiers |-> RB_ROOT]
  /\ under_reclaim = RB_ROOT
  /\ used_pages = [tier \in Tiers |-> <<>>]
  /\ size = 0
  /\ ops = "evict"
  /\ ztier_private = [page \in TiersPageAddrs |-> DEADBEEF]
  /\ host_free = TiersPageAddrs
  /\ live = {}
  /\ th = [t \in {1} |-> Idle]
  /\ event = NoEvent
  /\ stale = {}
  /\ bug = "none"
  /\ evicted = [t \in {1} |-> <<>>]
  /\ all_free = [t \in {1} |-> FALSE]
  /\ before = NoBefore
  /\ inserted = <<>>
  /\ holder = 0

NextTiers ==
  \/ \E t \in DOMAIN th, sz \in TiersSizes :
       Alloc(t, sz, FALSE, TiersLive) /\ Record
  \/ \E t \in DOMAIN th : AllocPage(t) /\ Record
  \/ \E t \in DOMAIN th : AllocInit(t) /\ Record
  \/ \E handle \in live : Free(handle) /\ Record
  \/ \E t \in DOMAIN th, retries \in 1..TiersRetries :
       ReclaimStart(t, retries) /\ Record
  \/ \E t \in DOMAIN th : ReclaimScan(t) /\ Record
  \/ \E t \in DOMAIN th : ReclaimEvict(t) /\ Record
  \/ \E t \in DOMAIN th : ReclaimVerify(t) /\ Record

SpecTiers == InitTiers /\ [][NextTiers]_vars

(***************************************************************************)
(* Properties.  A state of the model is a point where pool->lock is not    *)
(* held; a step is one critical section or one call made without the lock. *)
(***************************************************************************)
\* the handles of the chunks linked in a tree
Chunks(tree) == {struct_chunk(n) : n \in Nodes(tree)}

FreeChunks == UNION {Chunks(free_lists[tier]) : tier \in Tiers}

\* the pages the pool has carved and not given back
Carved ==
  {page \in DOMAIN ztier_private :
     /\ page \notin host_free
     /\ \A t \in DOMAIN th :
          ~(th[t].pc \in {"alloc_page", "alloc_init"} /\ th[t].page = page)}

\* the pages ztier_reclaim_page() has taken off their used_pages list
Detached == {page \in DOMAIN ztier_private : ztier_private[page].reclaim}

Listed == Len(used_pages[0]) + Len(used_pages[1]) + Len(used_pages[2])

\* C1: no two live handles are equal: a successful ztier_alloc() never
\* returns a handle that a user still holds.
C1_HandlesDistinct ==
  [][event'.op = "alloc" /\ event'.ret = 0 /\ bug' = "none"
       => event'.arg \notin live]_vars

\* ztier_alloc() handed out a second handle of a page that has a live one
C1_Witness ==
  /\ event.op = "alloc" /\ event.ret = 0
  /\ \E handle \in live :
       handle # event.arg /\ page_of(handle) = page_of(event.arg)

\* C2: when a page goes to __free_page() every chunk of it is in
\* under_reclaim and none is live, and a chunk enters under_reclaim only by
\* the quarantine move out of its free list or by a ztier_free() made while
\* the page's RECLAIM_FLAG is set.
C2_FreedPageWasQuarantined ==
  [][/\ \A page \in host_free' \ host_free :
          \A handle \in ChunksOf(page, ztier_private[page].tier) :
             /\ chunk_struct(handle) \in Nodes(under_reclaim)
             /\ handle \notin live
     /\ \A n \in Nodes(under_reclaim') \ Nodes(under_reclaim) :
          LET handle == struct_chunk(n)
              page == page_of(handle)
              tier == ztier_private[page].tier
          IN \/ /\ ~ztier_private[page].reclaim
                /\ ztier_private'[page].reclaim
                /\ n \in Nodes(free_lists[tier])
                /\ n \notin Nodes(free_lists'[tier])
             \/ /\ ztier_private[page].reclaim
                /\ handle \in live
                /\ handle \notin live']_vars

\* ztier_reclaim_page() returned 0 and its page is back with the allocator
C2_Witness ==
  /\ event.op = "reclaim" /\ event.ret = 0
  /\ event.arg \in host_free
  /\ live # {}

\* C3: once ztier_reclaim_page() has freed a page, no address of the page is
\* in a free list or in under_reclaim, and no ztier_alloc() returns a handle
\* in it, until alloc_page() returns the page again.
C3_NoChunkOfFreedPage ==
  /\ \A page \in host_free :
       /\ Dangling(under_reclaim, {page}) = {}
       /\ \A tier \in Tiers : Dangling(free_lists[tier], {page}) = {}
  /\ event.op = "alloc" /\ event.ret = 0 => page_of(event.arg) \notin host_free

\* C4: ztier_alloc() never returns a handle whose chunk is in under_reclaim,
\* nor a handle of a page whose RECLAIM_FLAG is set.
C4_NoAllocUnderReclaim ==
  event.op = "alloc" /\ event.ret = 0 =>
    /\ event.arg \notin Chunks(under_reclaim)
    /\ ~ztier_private[page_of(event.arg)].reclaim

\* C5: ztier_free() inserts the chunk into under_reclaim if and only if the
\* page's RECLAIM_FLAG is set in that critical section, and into the free
\* list of the page's tier otherwise: it adds the chunk to exactly one tree,
\* and to no free list while the page is under reclaim.
C5_FreeFollowsFlag ==
  [][\A handle \in live \ live' :
       LET page == page_of(handle)
           tier == ztier_private[page].tier
           chunk == chunk_struct(handle)
       IN IF ztier_private[page].reclaim
            THEN /\ Nodes(under_reclaim') = Nodes(under_reclaim) \cup {chunk}
                 /\ chunk \notin Nodes(under_reclaim)
                 /\ \A c \in Tiers : Nodes(free_lists'[c]) = Nodes(free_lists[c])
                 /\ \A c \in Tiers : chunk \notin Nodes(free_lists'[c])
            ELSE /\ Nodes(free_lists'[tier]) = Nodes(free_lists[tier]) \cup {chunk}
                 /\ chunk \notin Nodes(free_lists[tier])
                 /\ Nodes(under_reclaim') = Nodes(under_reclaim)
                 /\ \A c \in Tiers \ {tier} :
                      Nodes(free_lists'[c]) = Nodes(free_lists[c])
    ]_vars

\* a user's ztier_free() ran while the page was under reclaim
C5_Witness ==
  /\ event.op = "free"
  /\ ztier_private[page_of(event.arg)].reclaim
  /\ event.arg \in Chunks(under_reclaim)

\* C6: the free lists and under_reclaim are pairwise disjoint, and no live
\* handle is in any of them.
C6_Disjoint ==
  /\ \A c, d \in Tiers :
       c # d => Chunks(free_lists[c]) \cap Chunks(free_lists[d]) = {}
  /\ FreeChunks \cap Chunks(under_reclaim) = {}
  /\ live \cap (FreeChunks \cup Chunks(under_reclaim)) = {}

\* C7: every chunk in free_lists[c] is aligned to TIER_SIZES[c] and lies in
\* a page of tier c whose RECLAIM_FLAG is clear.
C7_FreeListPages ==
  \A c \in Tiers : \A handle \in Chunks(free_lists[c]) :
     /\ handle % TIER_SIZES[c] = 0
     /\ ztier_private[page_of(handle)] = [tier |-> c, reclaim |-> FALSE]

\* C8: every chunk in under_reclaim lies in a page whose RECLAIM_FLAG is set.
C8_UnderReclaimPages ==
  \A handle \in Chunks(under_reclaim) :
     ztier_private[page_of(handle)].reclaim

\* C9: pool->size is PAGE_SIZE times the number of pages carved and not yet
\* given back, the pages detached for reclaim included.
C9_SizeCountsCarved == size = PAGE_SIZE * Cardinality(Carved)

\* a page is detached for reclaim and still counted
C9_Witness ==
  /\ size > 0
  /\ \E t \in DOMAIN th :
       /\ th[t].pc = "evict"
       /\ th[t].page \in Detached
       /\ th[t].page \in Carved

\* C10 as stated: pool->size is PAGE_SIZE times the summed length of the
\* used_pages lists, also while a reclaim has the lock released.
C10_SizeCountsListed == size = PAGE_SIZE * Listed

\* C10: pool->size is PAGE_SIZE times the summed length of the used_pages
\* lists plus the pages detached for reclaim.
C10_SizeCountsListedAndDetached ==
  size = PAGE_SIZE * (Listed + Cardinality(Detached))

\* a reclaim is between its critical sections with a page on no list
C10_Witness ==
  \E t \in DOMAIN th :
     /\ th[t].pc \in {"scan", "evict", "verify"}
     /\ th[t].page \in Detached
     /\ \A tier \in Tiers : \A i \in DOMAIN used_pages[tier] :
          used_pages[tier][i] # th[t].page
     /\ Listed > 0

\* C11: a successful ztier_alloc(size) returns a handle in a page of the
\* tightest tier: the tier's chunk size is at least size, and the next smaller
\* tier, if there is one, is too small for size.
C11_TightestFit ==
  [][event'.op = "alloc" /\ event'.ret = 0 /\ bug' = "none" =>
       LET tier == ztier_private'[page_of(event'.arg)].tier
       IN /\ tier \in Tiers
          /\ event'.req \in 1..TIER_SIZES[0]
          /\ TIER_SIZES[tier] >= event'.req
          /\ tier = NUM_TIERS - 1 \/ TIER_SIZES[tier + 1] < event'.req]_vars

\* an allocation of 1000 bytes was served from a page of 1024 byte chunks
C11_Witness ==
  /\ event.op = "alloc" /\ event.ret = 0 /\ event.req = 1000
  /\ ztier_private[page_of(event.arg)].tier = 1
  /\ event.arg \in live

\* C12: ztier_alloc() with size 0 or a highmem gfp returns -EINVAL, with a
\* larger size than the largest chunk and a valid gfp it returns -ENOSPC, and
\* in both cases it does not take pool->lock and changes nothing of the pool;
\* every other request goes on to the free list.
C12_BadArgsTouchNothing ==
  [][/\ event'.op = "alloc" /\ (event'.req = 0 \/ event'.highmem)
          => event'.ret = -EINVAL
     /\ event'.op = "alloc" /\ event'.req > TIER_SIZES[0] /\ ~event'.highmem
          => event'.ret = -ENOSPC
     /\ event'.op = "alloc" /\ event'.ret \in {-EINVAL, -ENOSPC}
          => /\ ~event'.lock
             /\ UNCHANGED <<free_lists, under_reclaim, used_pages, size,
                            ztier_private, host_free, live, th>>
             /\ event'.ret = -EINVAL => event'.req = 0 \/ event'.highmem
             /\ event'.ret = -ENOSPC => event'.req > TIER_SIZES[0]
     /\ \A t \in DOMAIN th :
          th[t].pc = "idle" /\ th'[t].pc = "alloc_page"
            => th'[t].size \in 1..TIER_SIZES[0]]_vars

\* a request of one byte more than the largest chunk was refused while the
\* pool holds a page
C12_Witness ==
  /\ event.op = "alloc" /\ event.ret = -ENOSPC
  /\ event.req = TIER_SIZES[0] + 1
  /\ ~event.lock
  /\ size = PAGE_SIZE

\* C13: ztier_alloc() goes to alloc_page() only when the free list of its tier
\* is empty, without having changed the pool; when alloc_page() fails the call
\* returns -ENOMEM with the lock released, and that step changes no free list,
\* no page list, not under_reclaim and not pool->size.
C13_PageAllocFailure ==
  [][/\ \A t \in DOMAIN th :
          /\ th[t].pc = "idle" /\ th'[t].pc = "alloc_page"
               => /\ Nodes(free_lists[th'[t].tier]) = {}
                  /\ UNCHANGED <<free_lists, under_reclaim, used_pages, size,
                                 ztier_private, host_free, live>>
          /\ th[t].pc = "alloc_page" /\ th'[t].pc = "idle"
               => /\ event' = Unlocked(Event("alloc", -ENOMEM, NULL,
                                              th[t].size))
                  /\ UNCHANGED <<free_lists, under_reclaim, used_pages, size,
                                 ztier_private, host_free, live>>
     /\ event'.op = "alloc" /\ event'.ret = -ENOMEM
          => \E t \in DOMAIN th :
                th[t].pc = "alloc_page" /\ th'[t].pc = "idle"]_vars

\* an allocation failed for want of a page while another thread's call had
\* grown the pool in the meantime
C13_Witness ==
  /\ event.op = "alloc" /\ event.ret = -ENOMEM
  /\ ~event.lock
  /\ size = PAGE_SIZE
  /\ live # {}

\* C14: ztier_reclaim_page() returns -EINVAL, in a step that calls no eviction
\* handler and changes nothing of the pool, exactly when the pool has no
\* eviction handler, or no tier has a page on its list, or retries is 0.
C14_NoEvict ==
  [][/\ event'.op = "reclaim" /\ event'.ret = -EINVAL
          => /\ ops # "evict" \/ Listed = 0 \/ event'.req = 0
             /\ UNCHANGED <<free_lists, under_reclaim, used_pages, size,
                            ztier_private, host_free, live, th>>
     /\ event'.op = "reclaim" /\ event'.ret = -EAGAIN /\ th' = th
          => ops = "evict" /\ Listed # 0 /\ event'.req # 0
     /\ \A t \in DOMAIN th :
          th[t].pc = "idle" /\ th'[t].pc = "scan"
            => ops = "evict" /\ Listed # 0 /\ th'[t].budget # 0]_vars

\* a call with retries 0 was refused although the pool has a handler and a
\* page
C14_Witness ==
  /\ event.op = "reclaim" /\ event.ret = -EINVAL /\ event.req = 0
  /\ ops = "evict"
  /\ Listed = 1

\* the steps of ztier_reclaim_page() calls: a call that returns at once, or a
\* thread that enters, moves within or leaves the call
ReclaimStep ==
  \/ event'.op = "reclaim" /\ th' = th
  \/ \E t \in DOMAIN th :
        /\ th'[t] # th[t]
        /\ th[t].pc \in {"scan", "evict", "verify"} \/ th'[t].pc = "scan"

\* C15: a ztier_reclaim_page() call returns 0 in the step, and only in the
\* step, in which it gives exactly one page to __free_page() and takes
\* PAGE_SIZE off pool->size; no other step of a call, whatever it returns,
\* frees a page or changes pool->size.  When every chunk of the selected page
\* was free at the selection, no handle is passed to the eviction handler and
\* the call returns 0.
C15_OkFreesOnePage ==
  [][bug' = "none" =>
       /\ ReclaimStep =>
            IF event'.op = "reclaim" /\ event'.ret = 0
              THEN /\ size' = size - PAGE_SIZE
                   /\ event'.arg \notin host_free
                   /\ host_free' = host_free \cup {event'.arg}
              ELSE UNCHANGED <<size, host_free>>
       /\ event'.op = "reclaim" /\ event'.ret = 0 => ReclaimStep
       /\ \A t \in DOMAIN th :
            /\ th'[t].pc = "evict" => ~all_free'[t]
            /\ th[t].pc = "verify" /\ all_free[t] /\ th'[t] # th[t]
                 => th'[t].pc = "idle" /\ event'.op = "reclaim"
                    /\ event'.ret = 0]_vars

\* C16: the selection of a victim skips the tiers whose page list is empty
\* within the call: a ztier_reclaim_page() call that finds a handler, retries
\* left and a page on some list does not return -EAGAIN from its first
\* selection, it takes the page at the tail of the first list that has one.
C16_SkipsEmptyTiers ==
  [][bug' = "none" =>
       /\ ~(event'.op = "reclaim" /\ event'.ret = -EAGAIN /\ th' = th)
       /\ \A t \in DOMAIN th :
            th[t].pc = "idle" /\ th'[t].pc = "scan" =>
              LET c == th'[t].tier
              IN /\ used_pages[c] # <<>>
                 /\ th'[t].page = list_last_entry(used_pages[c])
                 /\ \A d \in Tiers : d < c => used_pages[d] = <<>>]_vars

\* C17: with one caller and every chunk free, a ztier_reclaim_page() call with
\* retries left selects a page as long as one is carved (and frees it, C15),
\* and the call that follows the one that freed the last page returns -EAGAIN.
C17_DrainsFreePages ==
  [][/\ bug' = "none" /\ ops = "evict" /\ live = {}
     /\ \A t \in DOMAIN th : th[t].pc = "idle"
     /\ event'.op = "reclaim" /\ th' = th /\ event'.req >= 1
     => /\ Carved = {}
        /\ event.op = "reclaim" /\ event.ret = 0 => event'.ret = -EAGAIN]_vars

\* thread t returns from ztier_reclaim_page() with -EAGAIN in this step, the
\* pool has carved the one page, one chunk of it is in use, and every call of
\* the handler the call made returned non-zero (its handle is still in use)
EvictFailedReturn(t, page) ==
  /\ bug' = "none"
  /\ Carved = {page}
  /\ Cardinality(live) = 1
  /\ \A u \in DOMAIN th : u # t => th[u].pc = "idle"
  /\ \/ th[t].pc = "verify" /\ th'[t].pc = "idle"
     \/ CanStart(t) /\ th' = th
  /\ event'.op = "reclaim" /\ event'.ret = -EAGAIN
  /\ \A n \in 1..Len(evicted[t]) : evicted[t][n] \in live

\* after the return the page is on its list with RECLAIM_FLAG clear, it is
\* counted in pool->size and its free chunks are in the free list of its tier
BackInPlace(page) ==
  LET tier == ztier_private[page].tier
  IN /\ size' = PAGE_SIZE
     /\ ~ztier_private'[page].reclaim
     /\ used_pages'[tier] = <<page>>
     /\ Chunks(free_lists'[tier]) = ChunksOf(page, tier) \ live'
     /\ Nodes(under_reclaim') = {}

C19_FreedChunkNotEvicted ==
  [][bug' = "none" =>
       \A t \in DOMAIN th :
         /\ th[t].pc = "scan" /\ th'[t].pc = "evict"
              => th'[t].page + th'[t].i \notin Chunks(under_reclaim)
         /\ (/\ th[t].pc = "verify" /\ th'[t] # th[t]
             /\ ChunksOf(th[t].page, th[t].tier)
                  \subseteq Chunks(under_reclaim))
              => th'[t].pc = "idle" /\ event'.op = "reclaim"
                 /\ event'.ret = 0]_vars

\* C20: within one ztier_reclaim_page() call the handler is never called
\* twice for the same handle, whatever the retry budget and the number of
\* pages.
C20_NoDoubleEviction ==
  \A t \in DOMAIN th :
    th[t].pc = "evict" =>
      \A n \in 1..Len(evicted[t]) : evicted[t][n] # th[t].page + th[t].i


\* thread t is inside ztier_reclaim_page() with a page detached
InReclaim(t) == th[t].pc \in {"scan", "evict", "verify"}

\* the page is linked in one of the used_pages lists
OnList(page) ==
  \E c \in Tiers : \E n \in 1..Len(used_pages[c]) : used_pages[c][n] = page

\* C21: whenever pool->lock is free, a page has RECLAIM_FLAG set if and only
\* if it is on no used_pages list and exactly one ztier_reclaim_page() call in
\* flight has it as its victim; so no two calls work on the same page, and
\* the selection never finds a flagged page at the tail of a list.
C21_FlagMeansDetachedAndOwned ==
  /\ \A page \in DOMAIN ztier_private :
       ztier_private[page].reclaim <=>
         /\ ~OnList(page)
         /\ Cardinality({t \in DOMAIN th :
                           InReclaim(t) /\ th[t].page = page}) = 1
  /\ \A t, u \in DOMAIN th :
       InReclaim(t) /\ InReclaim(u) /\ th[t].page = th[u].page => t = u
  /\ bug # "select_page: spins on flagged page"

\* two ztier_reclaim_page() calls are in flight, each with its own page
C21_Witness ==
  \E t, u \in DOMAIN th :
    /\ t # u /\ InReclaim(t) /\ InReclaim(u)
    /\ th[t].page # th[u].page
    /\ ztier_private[th[t].page].reclaim /\ ztier_private[th[u].page].reclaim
    /\ ~OnList(th[t].page) /\ ~OnList(th[u].page)


(***************************************************************************)
(* Termination of ztier_reclaim_page().  A thread inside the call keeps    *)
(* running: the scheduler runs it, spin_lock() is granted in the end, and  *)
(* pool->ops->evict() returns.  That is weak fairness of each step of the  *)
(* call; for the steps after the scan it is written with the condition    *)
(* that enables the step in place of ENABLED.                              *)
(***************************************************************************)
Fairness(t) ==
  /\ WF_vars(ReclaimScan(t) /\ NoRecord)
  /\ \/ []<>~(bug = "none" /\ th[t].pc = "evict")
     \/ []<><<ReclaimEvict(t) /\ NoRecord>>_vars
  /\ \/ []<>~(bug = "none" /\ th[t].pc = "verify")
     \/ []<><<ReclaimVerify(t) /\ NoRecord>>_vars

SpecLive == Spec /\ \A t \in Threads : Fairness(t)

\* with two callers no node of a freed page is left in under_reclaim, and
\* every ztier_reclaim_page() call returns
ReclaimReturns == \A t \in Threads : InReclaim(t) ~> th[t].pc = "idle"

\* C22: every ztier_reclaim_page() call returns: nothing stops the kernel or
\* the CPU of the caller (a BUG(), a fault, a spin that never ends) while the
\* call is in flight, the call has made at most `retries` attempts, and the
\* selection never spins.
C22_ReclaimReturns ==
  /\ \A t \in DOMAIN th :
       InReclaim(t) =>
         /\ bug = "none"
         /\ 0 <= th[t].retries /\ th[t].retries < th[t].budget
  /\ bug # "select_page: spins on flagged page"


(***************************************************************************)
(* Interrupts.  Every acquisition of pool->lock in ztier.c is a plain      *)
(* spin_lock(), which leaves the local interrupts as they are; none is     *)
(* spin_lock_irqsave() or spin_lock_irq().  Each thread of this            *)
(* specification runs on a CPU of its own.                                 *)
(***************************************************************************)
\* whether taking pool->lock disables the interrupts of the CPU
lock_disables_irq == FALSE

IRQ_DEADLOCK == "spin_lock: interrupt handler spins on the lock of its CPU"

\* thread t is in a call and its next step takes pool->lock: ztier_alloc()
\* back from alloc_page(), ztier_attempt_evict_page_chunks(), and
\* ztier_reclaim_page() after the evictions
AtLock(t) == th[t].pc \in {"alloc_init", "scan", "verify"}

\* Thread t takes pool->lock and, before it unlocks, an interrupt arrives on
\* its CPU whose handler calls ztier_free(pool, handle).  The handler spins
\* in spin_lock() for a lock that only the thread it interrupted can release:
\* the CPU is stuck, the lock stays held and every other caller spins too.
Interrupt(t, handle) ==
  /\ bug = "none"
  /\ ~lock_disables_irq
  /\ AtLock(t)
  /\ bug' = IRQ_DEADLOCK
  /\ event' = Event("interrupt", 0, handle, 0)
  /\ UNCHANGED <<free_lists, under_reclaim, used_pages, size, ops,
                 ztier_private, host_free, live, th, stale>>

InitIrq == Init /\ ops = "evict"

NextIrq ==
  \/ \E t \in DOMAIN th, sz \in Tier0Sizes :
       Alloc(t, sz, FALSE, MaxLive) /\ NoRecord
  \/ \E t \in DOMAIN th : AllocPage(t) /\ NoRecord
  \/ \E t \in DOMAIN th : AllocInit(t) /\ NoRecord
  \/ \E handle \in live : Free(handle) /\ NoRecord
  \/ \E t \in DOMAIN th, retries \in 1..MaxRetries :
       ReclaimStart(t, retries) /\ NoRecord
  \/ \E t \in DOMAIN th : ReclaimScan(t) /\ NoRecord
  \/ \E t \in DOMAIN th : ReclaimEvict(t) /\ NoRecord
  \/ \E t \in DOMAIN th : ReclaimVerify(t) /\ NoRecord
  \/ \E t \in DOMAIN th, handle \in live : Interrupt(t, handle) /\ NoRecord

SpecIrq == InitIrq /\ [][NextIrq]_vars

\* C24: pool->lock is taken with the local interrupts disabled, so no
\* ztier_free() in an interrupt handler ever spins on the lock held by the
\* thread it interrupted.
C24_NoSelfDeadlock == bug # IRQ_DEADLOCK


(***************************************************************************)
(* The whole interface, one caller: ztier_map(), ztier_unmap(),            *)
(* ztier_get_pool_size() and ztier_destroy_pool() beside the calls above.  *)
(***************************************************************************)
\* handles the users hold at any one time
ApiLive == 3

\* largest retry budget passed to ztier_reclaim_page()
ApiRetries == 2

\* a ztier_map() that returns the address of the page of the chunk
ztier_map_page(P, handle) == page_of(handle)

\* ztier_map(): (void *)(handle), a cast that keeps the value
ztier_map(P, handle) == handle

\* ztier_free_all(): P.freed is the set of pages given to __free_page()
RECURSIVE ztier_free_all(_, _)
ztier_free_all(P, i) ==
  IF i >= NUM_TIERS \/ P.bug # "none" THEN P
  ELSE IF P.used_pages[i] = <<>> THEN ztier_free_all(P, i + 1)
  ELSE
    LET page == P.used_pages[i][1] IN
    IF P.size < PAGE_SIZE THEN Bug(P, "free_all: size")
    ELSE ztier_free_all(
           [P EXCEPT
              !.free_lists[i] =
                 ztier_rb_move_range(@, NO_TREE, page, page + PAGE_SIZE).from,
              !.used_pages[i] = list_del(@, page),
              !.ztier_private[page] = DEADBEEF,
              !.freed = @ \cup {page},
              !.size = @ - PAGE_SIZE],
           i)

\* the pool has not been destroyed
Alive == event.op # "destroy"

\* ztier_map() of a handle a user holds
Map(handle) ==
  /\ bug = "none"
  /\ handle \in live
  /\ event' = Unlocked(Event("map", ztier_map(Pool, handle), handle, 0))
  /\ UNCHANGED <<free_lists, under_reclaim, used_pages, size, ops,
                 ztier_private, host_free, live, th, stale, bug>>

\* ztier_unmap() of a handle a user holds
Unmap(handle) ==
  /\ bug = "none"
  /\ handle \in live
  /\ event' = Unlocked(Event("unmap", 0, handle, 0))
  /\ UNCHANGED <<free_lists, under_reclaim, used_pages, size, ops,
                 ztier_private, host_free, live, th, stale, bug>>

\* ztier_get_pool_size()
GetPoolSize ==
  /\ bug = "none"
  /\ event' = Unlocked(Event("size", size, NULL, 0))
  /\ UNCHANGED <<free_lists, under_reclaim, used_pages, size, ops,
                 ztier_private, host_free, live, th, stale, bug>>

\* ztier_destroy_pool(), called when no other call is in flight; the handles
\* the users still hold stay with them
Destroy ==
  /\ bug = "none"
  /\ \A t \in DOMAIN th : th[t].pc = "idle"
  /\ IF UseAfterFree(Pool) THEN Halt(UAF)
     ELSE IF rb_first(under_reclaim) # NULL
       THEN Halt("destroy_pool: under_reclaim")
     ELSE \E P1 \in {ztier_free_all([Pool EXCEPT !.freed = {}], 0)} :
            IF P1.bug # "none" THEN Halt(P1.bug)
            ELSE /\ SetPool(P1)
                 /\ host_free' = host_free \cup P1.freed
                 /\ event' = Unlocked(Event("destroy", 0, NULL, 0))
                 /\ UNCHANGED <<ops, live, th, stale, bug>>

\* the history of a ztier_alloc() call: the free chunks of each tier when it
\* was made, kept until the step after its return
Snapshot ==
  /\ before' = [tier \in Tiers |-> Chunks(free_lists[tier])]
  /\ UNCHANGED <<evicted, all_free, inserted, holder>>

Forget ==
  /\ before' = NoBefore
  /\ UNCHANGED <<evicted, all_free, inserted, holder>>

\* a ztier_free() of the handle the last step returned keeps the history
AfterAlloc(handle) ==
  /\ before' = IF event.op = "alloc" /\ event.ret = 0 /\ event.arg = handle
                 THEN before ELSE NoBefore
  /\ UNCHANGED <<evicted, all_free, inserted, holder>>

InitApi == InitTiers

NextApi ==
  \/ \E t \in DOMAIN th, sz \in TiersSizes :
       Alive /\ Alloc(t, sz, FALSE, ApiLive) /\ Snapshot
  \/ \E t \in DOMAIN th : Alive /\ AllocPage(t) /\ NoRecord
  \/ \E t \in DOMAIN th : Alive /\ AllocInit(t) /\ NoRecord
  \/ \E handle \in live : Alive /\ Free(handle) /\ AfterAlloc(handle)
  \/ \E t \in DOMAIN th, retries \in 1..ApiRetries :
       Alive /\ ReclaimStart(t, retries) /\ Forget
  \/ \E t \in DOMAIN th : Alive /\ ReclaimScan(t) /\ Forget
  \/ \E t \in DOMAIN th : Alive /\ ReclaimEvict(t) /\ Forget
  \/ \E t \in DOMAIN th : Alive /\ ReclaimVerify(t) /\ Forget
  \/ \E handle \in live : Alive /\ Map(handle) /\ Forget
  \/ \E handle \in live : Alive /\ Unmap(handle) /\ Forget
  \/ Alive /\ GetPoolSize /\ Forget
  \/ Alive /\ Destroy /\ Forget

SpecApi == InitApi /\ [][NextApi]_vars


\* the page frames a step gives to __free_page()
Returned == host_free' \ host_free

\* C23: pool->size never goes down and no page goes to __free_page() in a
\* step of ztier_alloc(), ztier_free(), ztier_map(), ztier_unmap() or
\* ztier_get_pool_size(); pool->size goes down only together with
\* __free_page(), by PAGE_SIZE for each page, and that only in
\* ztier_reclaim_page() (one page, the call returns 0) and in
\* ztier_destroy_pool().
C23_OnlyReclaimFreesPages ==
  [][bug' = "none" =>
       /\ event'.op \in {"alloc", "alloc_grow", "alloc_page", "free", "map",
                         "unmap", "size"}
            => size' >= size /\ Returned = {}
       /\ size' < size \/ Returned # {}
            => /\ size - size' = PAGE_SIZE * Cardinality(Returned)
               /\ Returned # {}
               /\ event'.op \in {"reclaim", "destroy"}
               /\ event'.op = "reclaim"
                    => event'.ret = 0 /\ Returned = {event'.arg}]_vars

\* a ztier_free() has just made every chunk of a page free, and the page is
\* still in the pool and counted in pool->size
C23_Witness ==
  /\ event.op = "free" /\ bug = "none"
  /\ \E page \in DOMAIN ztier_private :
       /\ page = page_of(event.arg)
       /\ OnList(page) /\ page \notin host_free
       /\ ChunksOf(page, ztier_private[page].tier)
            \subseteq Chunks(free_lists[ztier_private[page].tier])
  /\ size >= PAGE_SIZE


\* the last two calls were a ztier_alloc() made with no other call in flight
\* and the ztier_free() of the handle it returned, with nothing in between
AllocThenFree == event.op = "free" /\ before # NoBefore /\ bug = "none"

\* C25: ztier_alloc() followed at once by ztier_free() of its handle leaves
\* the set of free chunks of every tier as it was before the ztier_alloc().
C25_AllocFreeRestores ==
  AllocThenFree => \A tier \in Tiers : Chunks(free_lists[tier]) = before[tier]

\* C25 as the code has it: the sets are as before, except that a tier whose
\* set was empty, for which ztier_alloc() carved a page, ends with exactly
\* the chunks of that page
C25_AllocFreeRestoresOrKeepsPage ==
  AllocThenFree =>
    LET page == page_of(event.arg) IN
    \A tier \in Tiers :
      Chunks(free_lists[tier]) =
        IF tier = ztier_private[page].tier /\ before[tier] = {}
          THEN ChunksOf(page, tier)
          ELSE before[tier]

\* a ztier_alloc() that carved a page and the ztier_free() of its handle have
\* just run, while a chunk of another tier is held
C25_Witness ==
  /\ AllocThenFree
  /\ before[ztier_private[page_of(event.arg)].tier] = {}
  /\ event.arg \in Chunks(free_lists[ztier_private[page_of(event.arg)].tier])
  /\ live # {}


\* C26: ztier_destroy_pool() stops in a BUG() when under_reclaim is not empty
\* or a handle is still held, and it gives no page that holds a live chunk to
\* __free_page().
C26_DestroyChecksItsPrecondition ==
  [][Destroy =>
       /\ live # {} \/ Nodes(under_reclaim) # {} => bug' # "none"
       /\ \A handle \in live : page_of(handle) \notin Returned]_vars


(***************************************************************************)
(* Double free: the single caller of SpecSerial, and users who call        *)
(* ztier_free() on a handle they have already freed.  A double free that   *)
(* no BUG() stops ends the run.                                            *)
(***************************************************************************)
NoDoubleFree == event.op # "double_free"

\* ztier_free() of a handle whose chunk is in a free list or in under_reclaim
DoubleFree(handle) ==
  /\ bug = "none"
  /\ handle \in FreeChunks \cup Chunks(under_reclaim)
  /\ \E P1 \in {ztier_free(Pool, handle)} :
        IF P1.bug # "none" THEN Halt(P1.bug)
        ELSE /\ SetPool(P1)
             /\ event' = Event("double_free", 0, handle, 0)
             /\ UNCHANGED <<ops, host_free, live, th, stale, bug>>

NextDouble ==
  \/ \E t \in DOMAIN th, sz \in SerialSizes :
       NoDoubleFree /\ Alloc(t, sz, FALSE, SerialLive) /\ NoRecord
  \/ \E t \in DOMAIN th : NoDoubleFree /\ AllocPage(t) /\ NoRecord
  \/ \E t \in DOMAIN th : NoDoubleFree /\ AllocInit(t) /\ NoRecord
  \/ \E handle \in live : NoDoubleFree /\ Free(handle) /\ NoRecord
  \/ \E t \in DOMAIN th, retries \in 1..SerialRetries :
       NoDoubleFree /\ ReclaimStart(t, retries) /\ NoRecord
  \/ \E t \in DOMAIN th : NoDoubleFree /\ ReclaimScan(t) /\ NoRecord
  \/ \E t \in DOMAIN th : NoDoubleFree /\ ReclaimEvict(t) /\ NoRecord
  \/ \E t \in DOMAIN th : NoDoubleFree /\ ReclaimVerify(t) /\ NoRecord
  \/ \E handle \in FreeChunks \cup Chunks(under_reclaim) :
       NoDoubleFree /\ DoubleFree(handle) /\ NoRecord

SpecDouble == InitSerial /\ [][NextDouble]_vars

\* C27: ztier_free() of a chunk that is already in a free list or in
\* under_reclaim ends in a BUG(); it never returns with the chunk in two
\* trees.
C27_DoubleFreeIsFatal ==
  /\ NoDoubleFree
  /\ \A tier \in Tiers : Chunks(free_lists[tier]) \cap Chunks(under_reclaim) = {}


\* C28: ztier_map() returns the handle as the pointer, and neither ztier_map()
\* nor ztier_unmap() changes the free lists, under_reclaim, the page lists,
\* the flags or pool->size, nor takes the pool lock.
C28_MapUnmapChangeNothing ==
  [][bug' = "none" /\ event'.op \in {"map", "unmap"} =>
       /\ ~event'.lock
       /\ UNCHANGED <<free_lists, under_reclaim, used_pages, size,
                      ztier_private, host_free, live, th, stale>>
       /\ event'.op = "map" => event'.ret = event'.arg]_vars

C28_Witness ==
  /\ event.op = "map"
  /\ bug = "none"
  /\ event.arg \in live
  /\ event.arg # page_of(event.arg)
  /\ event.ret = event.arg
  /\ \E t \in DOMAIN th : InReclaim(t)


\* thread t ends a failed attempt on th[t].page in this step and returns
\* -EAGAIN: the state after the step is the state the put-back leaves
FailedAttempt(t) ==
  /\ th[t].pc = "verify"
  /\ th'[t].pc = "idle"
  /\ bug' = "none"
  /\ event'.op = "reclaim" /\ event'.ret = -EAGAIN

\* C29: a failed attempt on a page leaves the page with RECLAIM_FLAG clear
\* and its tier unchanged, at the head of used_pages of that tier, every
\* chunk of the page that was in under_reclaim in the free list of that tier
\* and no chunk of the page in under_reclaim.
C29_FailedAttemptPutsBack ==
  [][\A t \in DOMAIN th :
       FailedAttempt(t) =>
         LET Q == th[t].page
             tier == th[t].reclaim_tier
         IN /\ ~ztier_private'[Q].reclaim
            /\ ztier_private[Q].tier = tier /\ ztier_private'[Q].tier = tier
            /\ used_pages'[tier] # <<>> /\ used_pages'[tier][1] = Q
            /\ ChunksOf(Q, tier) \cap Chunks(under_reclaim)
                 \subseteq Chunks(free_lists'[tier])
            /\ ChunksOf(Q, tier) \cap Chunks(under_reclaim') = {}]_vars


(***************************************************************************)
(* The caller of SpecTiers with users that free no handle while a          *)
(* ztier_reclaim_page() call is in flight: the chunks in use when the call *)
(* starts are those the handler is called for.                             *)
(***************************************************************************)
NextQuiet ==
  \/ \E t \in DOMAIN th, sz \in TiersSizes :
       Alloc(t, sz, FALSE, TiersLive) /\ Record
  \/ \E t \in DOMAIN th : AllocPage(t) /\ Record
  \/ \E t \in DOMAIN th : AllocInit(t) /\ Record
  \/ \E handle \in live :
       (\A t \in DOMAIN th : ~InReclaim(t)) /\ Free(handle) /\ Record
  \/ \E t \in DOMAIN th, retries \in 1..TiersRetries :
       ReclaimStart(t, retries) /\ Record
  \/ \E t \in DOMAIN th : ReclaimScan(t) /\ Record
  \/ \E t \in DOMAIN th : ReclaimEvict(t) /\ Record
  \/ \E t \in DOMAIN th : ReclaimVerify(t) /\ Record

SpecQuiet == InitTiers /\ [][NextQuiet]_vars

\* the pool has carved two pages, Q0 for tier 0 and Q1 for tier 2, and one
\* chunk of Q1 is in use
TwoTierPool(Q0, Q1) ==
  /\ Carved = {Q0, Q1}
  /\ ztier_private[Q0].tier = 0
  /\ ztier_private[Q1].tier = 2
  /\ Cardinality(live \cap ChunksOf(Q1, 2)) = 1

\* the chunks of page Q0 that are in use or that the call of thread t has
\* passed to the handler
InUse(t, Q0) ==
  (live \cap ChunksOf(Q0, 0)) \cup {evicted[t][n] : n \in 1..Len(evicted[t])}

\* thread t quarantines a page in this step
Quarantines(t) ==
  /\ th[t].pc \in {"idle", "verify"}
  /\ th'[t].pc = "scan"
  /\ bug' = "none"

\* C30: ztier_reclaim_page() never quarantines a page of a tier while a tier
\* of larger chunks that the call has not passed has a page on its list; with
\* a page of tier 0 and a page of tier 2, each with one chunk in use, the call
\* quarantines the page of tier 0 first and never the other, and it calls the
\* handler once, for the chunk of the tier 0 page.
C30_LargestTierFirst ==
  [][\A t \in DOMAIN th :
       /\ Quarantines(t) =>
            \A d \in Tiers :
               d < ztier_private[th'[t].page].tier =>
                 \/ used_pages[d] = <<>>
                 \/ th[t].pc = "verify" /\ d < th[t].current_tier
       /\ \A Q0, Q1 \in DOMAIN ztier_private :
            TwoTierPool(Q0, Q1) =>
              /\ Quarantines(t) /\ th[t].pc = "idle"
                   /\ Cardinality(live \cap ChunksOf(Q0, 0)) = 1
                   => th'[t].page = Q0 /\ ~ztier_private'[Q1].reclaim
              /\ InReclaim(t) /\ th[t].page = Q0 /\ bug' = "none"
                   /\ Cardinality(InUse(t, Q0)) = 1
                   => /\ ~ztier_private'[Q1].reclaim
                      /\ Len(evicted'[t]) <= 1
                      /\ evicted[t] # <<>> => evicted[t][1] \in ChunksOf(Q0, 0)
                      /\ th'[t].pc = "idle" => Len(evicted[t]) = 1]_vars

\* a ztier_reclaim_page() call on such a pool has called the handler for the
\* chunk of the tier 0 page and is about to test the page
C30_Witness ==
  /\ bug = "none"
  /\ \E t \in DOMAIN th, Q0, Q1 \in DOMAIN ztier_private :
       /\ TwoTierPool(Q0, Q1)
       /\ th[t].pc = "verify" /\ th[t].page = Q0
       /\ used_pages[2] = <<Q1>>
       /\ Len(evicted[t]) = 1
       /\ evicted[t][1] \in live \cap ChunksOf(Q0, 0)


(***************************************************************************)
(* The caller of SpecSerial with the order of the list_add() calls kept:   *)
(* ztier_init_page() and the put-back of a failed attempt add a page at    *)
(* the head of its list, one page per critical section at most.            *)
(***************************************************************************)
Listing(lists) ==
  UNION {{lists[tier][n] : n \in 1..Len(lists[tier])} : tier \in Tiers}

Log ==
  /\ inserted' =
       LET now == Listing(used_pages')
           added == now \ Listing(used_pages)
       IN SelectSeq(inserted, LAMBDA q : q \in now)
            \o (IF added = {} THEN <<>> ELSE <<CHOOSE q \in added : TRUE>>)
  /\ UNCHANGED <<evicted, all_free, before, holder>>

NextOrder ==
  \/ \E t \in DOMAIN th, sz \in SerialSizes :
       Alloc(t, sz, FALSE, SerialLive) /\ Log
  \/ \E t \in DOMAIN th : AllocPage(t) /\ Log
  \/ \E t \in DOMAIN th : AllocInit(t) /\ Log
  \/ \E handle \in live : Free(handle) /\ Log
  \/ \E t \in DOMAIN th, retries \in 1..SerialRetries :
       ReclaimStart(t, retries) /\ Log
  \/ \E t \in DOMAIN th : ReclaimScan(t) /\ Log
  \/ \E t \in DOMAIN th : ReclaimEvict(t) /\ Log
  \/ \E t \in DOMAIN th : ReclaimVerify(t) /\ Log

SpecOrder == InitSerial /\ [][NextOrder]_vars

\* the pages on the lists when thread t selects its victim in this step, in
\* the order of their list_add(): a failed attempt has put its page back
OrderAtSelection(t) ==
  IF th[t].pc = "verify" THEN Append(inserted, th[t].page) ELSE inserted

\* C31: the page ztier_reclaim_page() selects is, of the pages on the list of
\* its tier, the one that was added to the list first.
C31_OldestFirst ==
  [][\A t \in DOMAIN th :
       Quarantines(t) =>
         LET Q == th'[t].page
             same == SelectSeq(OrderAtSelection(t),
                       LAMBDA q : ztier_private[q].tier = ztier_private[Q].tier)
         IN same # <<>> /\ same[1] = Q]_vars


\* the pages the ztier_reclaim_page() call of thread t has made an attempt
\* on that ended with a refusal of the handler
Tried(t) == {page_of(evicted[t][n]) : n \in 1..Len(evicted[t])}

\* C32: a retry of ztier_reclaim_page() never quarantines a page the call has
\* tried before, and a call that gives up with retries left has tried every
\* page on the list of the tier.
C32_RetriesTakeNewPages ==
  [][\A t \in DOMAIN th :
       /\ Quarantines(t) /\ th[t].pc = "verify" =>
            th'[t].page \notin Tried(t) \cup {th[t].page}
       /\ FailedAttempt(t) /\ th[t].retries >= 1 =>
            \A q \in Listing(used_pages') :
               ztier_private'[q].tier = th[t].reclaim_tier
                 => q \in Tried(t) \cup {th[t].page}]_vars


\* thread t carves the page it got from alloc_page() in this step
Carves(t) ==
  /\ th[t].pc = "alloc_init"
  /\ th'[t].pc = "idle"
  /\ bug' = "none"

\* C33: ztier_alloc() carves a page for a tier only when the tier has no free
\* chunk: the free list of the tier is empty just before ztier_init_page()
\* inserts the chunks of the page.
C33_CarvesOnlyWhenEmpty ==
  [][\A t \in DOMAIN th :
       Carves(t) => Nodes(free_lists[th[t].tier]) = {}]_vars

\* C33 as the code has it: the free list of the tier was empty when
\* ztier_alloc() looked at it, before it dropped the lock for alloc_page();
\* the page it then gets is carved for that tier whatever the free list
\* holds by then, and pages are added to a list by no other way than this and
\* the put-back of a failed reclaim attempt.
C33_CarvesWhenFoundEmpty ==
  [][\A t \in DOMAIN th :
       /\ th'[t].pc = "alloc_page" /\ th[t].pc # "alloc_page" =>
            th[t].pc = "idle" /\ Nodes(free_lists[th'[t].tier]) = {}
       /\ th'[t].pc = "alloc_init" /\ th[t].pc # "alloc_init" =>
            th[t].pc = "alloc_page" /\ th'[t].tier = th[t].tier
       /\ Carves(t) =>
            /\ used_pages'[th[t].tier] = <<th[t].page>> \o used_pages[th[t].tier]
            /\ ChunksOf(th[t].page, th[t].tier) \ {event'.arg}
                 \subseteq Chunks(free_lists'[th[t].tier])
       /\ \A page \in Listing(used_pages') \ Listing(used_pages) :
            \/ \E u \in DOMAIN th : Carves(u) /\ th[u].page = page
            \/ \E u \in DOMAIN th : th[u].pc = "verify" /\ th[u].page = page]_vars

\* a page has just been carved for a tier whose free list held chunks of
\* another page
C33_Witness ==
  /\ event.op = "alloc" /\ event.ret = 0 /\ bug = "none"
  /\ \E tier \in Tiers :
       /\ Len(used_pages[tier]) = 2
       /\ used_pages[tier][1] = page_of(event.arg)
       /\ \E h \in Chunks(free_lists[tier]) : page_of(h) = used_pages[tier][2]
       /\ \E h \in Chunks(free_lists[tier]) : page_of(h) = used_pages[tier][1]


(***************************************************************************)
(* The locking of ztier_alloc(), ztier_free() and ztier_reclaim_page():    *)
(* the control flow of the three functions with every spin_lock(),         *)
(* spin_unlock(), alloc_page() and pool->ops->evict() call a step of its   *)
(* own.  What a branch depends on (the trees, the lists, the results of    *)
(* the calls) is left open: every branch of the code can be taken.         *)
(***************************************************************************)
\* chunks in the page ztier_attempt_evict_page_chunks() walks
LockChunks == 2

\* largest retries argument of ztier_reclaim_page()
LockRetries == 2

\* per place in the code: what the step does and where it can lead
Steps ==
  [pc \in {"a_lock", "a_first", "a_unlock", "a_page", "a_relock", "a_unlock2",
           "f_lock", "f_unlock",
           "r_lock", "r_check", "r_unlock_einval", "r_select",
           "r_unlock_null", "r_unlock_q", "r_relock", "r_reclaimed",
           "r_unlock_ok", "r_unlock_end",
           "e_lock", "e_unlock_end", "e_unlock", "e_call", "e_relock",
           "h_lock", "h_unlock"} |->
     CASE pc = "a_lock"          -> [op |-> "lock",   next |-> {"a_first"}]
       [] pc = "a_first"         -> [op |-> "skip",   next |-> {"a_unlock", "a_unlock2"}]
       [] pc = "a_unlock"        -> [op |-> "unlock", next |-> {"a_page"}]
       [] pc = "a_page"          -> [op |-> "alloc_page", next |-> {"idle", "a_relock"}]
       [] pc = "a_relock"        -> [op |-> "lock",   next |-> {"a_unlock2"}]
       [] pc = "a_unlock2"       -> [op |-> "unlock", next |-> {"idle"}]
       [] pc = "f_lock"          -> [op |-> "lock",   next |-> {"f_unlock"}]
       [] pc = "f_unlock"        -> [op |-> "unlock", next |-> {"idle"}]
       [] pc = "r_lock"          -> [op |-> "lock",   next |-> {"r_check"}]
       [] pc = "r_check"         -> [op |-> "skip",   next |-> {"r_unlock_einval", "r_loop"}]
       [] pc = "r_unlock_einval" -> [op |-> "unlock", next |-> {"idle"}]
       [] pc = "r_select"        -> [op |-> "skip",   next |-> {"r_unlock_null", "r_unlock_q"}]
       [] pc = "r_unlock_null"   -> [op |-> "unlock", next |-> {"idle"}]
       [] pc = "r_unlock_q"      -> [op |-> "unlock", next |-> {"e_lock"}]
       [] pc = "e_lock"          -> [op |-> "lock",   next |-> {"e_loop"}]
       [] pc = "e_unlock_end"    -> [op |-> "unlock", next |-> {"r_relock"}]
       [] pc = "e_unlock"        -> [op |-> "unlock", next |-> {"e_call"}]
       [] pc = "e_call"          -> [op |-> "evict",  next |-> {"r_relock", "h_lock"}]
       [] pc = "h_lock"          -> [op |-> "lock",   next |-> {"h_unlock"}]
       [] pc = "h_unlock"        -> [op |-> "unlock", next |-> {"e_relock"}]
       [] pc = "e_relock"        -> [op |-> "lock",   next |-> {"e_next"}]
       [] pc = "r_relock"        -> [op |-> "lock",   next |-> {"r_reclaimed"}]
       [] pc = "r_reclaimed"     -> [op |-> "skip",   next |-> {"r_unlock_ok", "r_loop"}]
       [] pc = "r_unlock_ok"     -> [op |-> "unlock", next |-> {"idle"}]
       [] pc = "r_unlock_end"    -> [op |-> "unlock", next |-> {"idle"}]]

DOUBLE_LOCK == "spin_lock: the caller holds the lock"
BAD_UNLOCK == "spin_unlock: the caller does not hold the lock"

OpAt(t) == IF th[t].pc \in DOMAIN Steps THEN Steps[th[t].pc].op ELSE "none"

Goto(t, pc) == th' = [th EXCEPT ![t].pc = pc]

PoolUntouched ==
  UNCHANGED <<free_lists, under_reclaim, used_pages, size, ops, ztier_private,
              host_free, live, event, stale, evicted, all_free, before,
              inserted>>

\* a thread calls ztier_alloc(), ztier_free() or ztier_reclaim_page(); a
\* ztier_alloc() with bad arguments returns before it locks
Call(t, pc, retries) ==
  /\ bug = "none"
  /\ th[t].pc = "idle"
  /\ th' = [th EXCEPT ![t] = [Idle EXCEPT !.pc = pc, !.retries = retries]]
  /\ UNCHANGED <<holder, bug>>
  /\ PoolUntouched

\* spin_lock(&pool->lock): the caller spins while another thread holds it
SpinLock(t) ==
  /\ bug = "none"
  /\ OpAt(t) = "lock"
  /\ IF holder = t
       THEN bug' = DOUBLE_LOCK /\ UNCHANGED <<holder, th>>
       ELSE /\ holder = 0
            /\ holder' = t
            /\ \E pc \in Steps[th[t].pc].next : Goto(t, pc)
            /\ UNCHANGED bug
  /\ PoolUntouched

\* a spin_unlock() that leaves the lock held
SpinUnlock_keeps_lock(t) ==
  /\ bug = "none"
  /\ OpAt(t) = "unlock"
  /\ \E pc \in Steps[th[t].pc].next : Goto(t, pc)
  /\ UNCHANGED <<holder, bug>>
  /\ PoolUntouched

\* spin_unlock(&pool->lock)
SpinUnlock(t) ==
  /\ bug = "none"
  /\ OpAt(t) = "unlock"
  /\ IF holder # t
       THEN bug' = BAD_UNLOCK /\ UNCHANGED <<holder, th>>
       ELSE /\ holder' = 0
            /\ \E pc \in Steps[th[t].pc].next : Goto(t, pc)
            /\ UNCHANGED bug
  /\ PoolUntouched

\* a branch of the code, alloc_page(gfp), or pool->ops->evict(pool, handle),
\* which returns non-zero or calls ztier_free() and returns 0
Branch(t) ==
  /\ bug = "none"
  /\ OpAt(t) \in {"skip", "alloc_page", "evict"}
  /\ \E pc \in Steps[th[t].pc].next : Goto(t, pc)
  /\ UNCHANGED <<holder, bug>>
  /\ PoolUntouched

\* while (retries-- > 0) in ztier_reclaim_page()
RetryLoop(t) ==
  /\ bug = "none"
  /\ th[t].pc = "r_loop"
  /\ IF th[t].retries > 0
       THEN th' = [th EXCEPT ![t].pc = "r_select", ![t].retries = @ - 1]
       ELSE Goto(t, "r_unlock_end")
  /\ UNCHANGED <<holder, bug>>
  /\ PoolUntouched

\* the for loop of ztier_attempt_evict_page_chunks(): the chunk is in
\* under_reclaim, or it is not and the handler is called for it
ChunkLoop(t) ==
  /\ bug = "none"
  /\ th[t].pc \in {"e_loop", "e_next"}
  /\ \E i \in {IF th[t].pc = "e_next" THEN th[t].i + 1 ELSE th[t].i} :
       IF i >= LockChunks
         THEN th' = [th EXCEPT ![t].pc = "e_unlock_end", ![t].i = 0]
         ELSE \/ th' = [th EXCEPT ![t].pc = "e_next", ![t].i = i]
              \/ th' = [th EXCEPT ![t].pc = "e_unlock", ![t].i = i]
  /\ UNCHANGED <<holder, bug>>
  /\ PoolUntouched

NextLock ==
  \/ \E t \in DOMAIN th, pc \in {"idle", "a_lock", "f_lock"} : Call(t, pc, 0)
  \/ \E t \in DOMAIN th, retries \in 0..LockRetries : Call(t, "r_lock", retries)
  \/ \E t \in DOMAIN th : SpinLock(t)
  \/ \E t \in DOMAIN th : SpinUnlock(t)
  \/ \E t \in DOMAIN th : Branch(t)
  \/ \E t \in DOMAIN th : RetryLoop(t)
  \/ \E t \in DOMAIN th : ChunkLoop(t)

SpecLock == Init /\ [][NextLock]_vars

\* C34: alloc_page() and the eviction handler are called by a thread that
\* does not hold pool->lock, a thread that has returned from ztier_alloc(),
\* ztier_free() or ztier_reclaim_page() does not hold it, and no thread calls
\* spin_lock() while it holds the lock or spin_unlock() while it does not.
C34_LockDiscipline ==
  /\ bug \notin {DOUBLE_LOCK, BAD_UNLOCK}
  /\ \A t \in DOMAIN th :
       th[t].pc \in {"idle", "a_page", "e_call"} => holder # t
  /\ (\A t \in DOMAIN th : th[t].pc = "idle") => holder = 0

\* a thread is about to call the handler from its second round of the retry
\* loop while the other thread is spinning in ztier_free()
C34_Witness ==
  /\ bug = "none"
  /\ \E t, u \in DOMAIN th :
       /\ th[t].pc = "e_call" /\ th[t].retries = 0 /\ th[t].i = 1
       /\ th[u].pc = "f_unlock" /\ holder = u


\* C35: the handler is called only for a handle that a user holds at the
\* moment of the call: never for a chunk that is in under_reclaim or in a
\* free list by then.
C35_EvictsLiveOnly ==
  [][\A t \in DOMAIN th :
       th[t].pc = "evict" /\ th'[t].pc # "evict" /\ bug' = "none" =>
         /\ th[t].page + th[t].i \in live
         /\ th[t].page + th[t].i \notin FreeChunks \cup Chunks(under_reclaim)]_vars


NO_FREE_CHUNK == "alloc: BUG_ON(!free)"

\* C36: after ztier_alloc() has carved a page for a tier, rb_first() of the
\* free list of the tier is not NULL: BUG_ON(!free) never fires, and the call
\* returns the least free chunk of the tier.
C36_CarvedPageYieldsChunk ==
  [][/\ bug' # NO_FREE_CHUNK
     /\ \A t \in DOMAIN th :
          Carves(t) =>
            LET tier == th[t].tier
                free == Chunks(free_lists[tier]) \cup ChunksOf(th[t].page, tier)
            IN /\ event'.op = "alloc" /\ event'.ret = 0
               /\ event'.arg \in free /\ \A h \in free : event'.arg <= h
               /\ event'.arg \in live' \ live
               /\ Chunks(free_lists'[tier]) = free \ {event'.arg}]_vars

\* ztier_alloc() has returned the first chunk of the page at the head of the
\* list of its tier, whose other chunks are free, while another thread has
\* the only other page of the pool under reclaim
C36_Witness ==
  /\ event.op = "alloc" /\ event.ret = 0 /\ bug = "none"
  /\ event.arg \in live
  /\ size = 2 * PAGE_SIZE
  /\ \E tier \in Tiers, t \in DOMAIN th :
       /\ used_pages[tier] = <<event.arg>>
       /\ Chunks(free_lists[tier]) = ChunksOf(event.arg, tier) \ {event.arg}
       /\ InReclaim(t) /\ th[t].tier = tier


\* the free list and the page list of every tier outside `tiers` are the same
\* before and after the step
OtherTiersUntouched(tiers) ==
  \A c \in Tiers \ tiers :
     free_lists'[c] = free_lists[c] /\ used_pages'[c] = used_pages[c]

\* the tiers of the pages the threads that move in this step have under
\* reclaim before or after it
TiersInReclaim ==
  {th[t].tier : t \in {u \in DOMAIN th : th'[u] # th[u] /\ InReclaim(u)}}
    \cup {th'[t].tier : t \in {u \in DOMAIN th :
                                 th'[u] # th[u] /\ th'[u].pc = "scan"}}

\* C37: a ztier_alloc() for a tier, a ztier_free() of a chunk of a page of a
\* tier and a reclaim attempt on a page of a tier leave the free list and the
\* page list of every other tier as they are.
C37_OtherTiersUntouched ==
  [][bug' = "none" =>
       /\ event'.op \in {"alloc_grow", "alloc_page"} => OtherTiersUntouched({})
       /\ event'.op = "alloc" /\ event'.ret # 0 => OtherTiersUntouched({})
       /\ event'.op = "alloc" /\ event'.ret = 0 =>
            OtherTiersUntouched({ztier_private'[page_of(event'.arg)].tier})
       /\ event'.op = "free" =>
            OtherTiersUntouched({ztier_private[page_of(event'.arg)].tier})
       /\ event'.op \in {"quarantine", "scan", "evict", "reclaim"} =>
            /\ Cardinality(TiersInReclaim) <= 1
            /\ OtherTiersUntouched(TiersInReclaim)]_vars

\* a chunk of a page of tier 2 has just been freed while tier 0 has a page
\* with a chunk in its free list
C37_Witness ==
  /\ event.op = "free" /\ bug = "none"
  /\ ztier_private[page_of(event.arg)].tier = 2
  /\ event.arg \in Chunks(free_lists[2])
  /\ used_pages[0] # <<>>
  /\ Nodes(free_lists[0]) # {}


(***************************************************************************)
(* The tree helpers on their own: free_lists[0] is built by                *)
(* ztier_rb_insert() and rb_erase() from the chunks of TreeKeys, so it     *)
(* takes the shapes the red-black code gives it, and ztier_rb_ceil(),      *)
(* ztier_rb_contains() and ztier_rb_move_range() (into under_reclaim, or   *)
(* discarding) are applied to it with arguments from TreePoints.           *)
(***************************************************************************)
\* chunks of 1024 bytes in the page frames at 4096 and 8192
TreeChunks == 5

TreeKeys == {chunk_struct(4096 + 1024 * i) : i \in 0..(TreeChunks - 1)}

\* arguments of the helpers: the chunks and the page boundaries
TreePoints == TreeKeys \cup {4096, 8192}

TreeFrame ==
  UNCHANGED <<used_pages, size, ops, ztier_private, host_free, live, th,
              stale, bug, evicted, all_free, before, inserted, holder>>

TreeInsert(chunk) ==
  /\ chunk \notin Nodes(free_lists[0]) \cup Nodes(under_reclaim)
  /\ free_lists' = [free_lists EXCEPT ![0] = ztier_rb_insert(@, chunk)]
  /\ event' = Unlocked(Event("rb_insert", 0, chunk, 0))
  /\ UNCHANGED under_reclaim
  /\ TreeFrame

TreeErase(chunk) ==
  /\ chunk \in Nodes(free_lists[0])
  /\ free_lists' = [free_lists EXCEPT ![0] = rb_erase(@, chunk)]
  /\ event' = Unlocked(Event("rb_erase", 0, chunk, 0))
  /\ UNCHANGED under_reclaim
  /\ TreeFrame

TreeCeil(chunk) ==
  /\ event' = Unlocked(Event("ceil", ztier_rb_ceil(free_lists[0], chunk), chunk, 0))
  /\ UNCHANGED <<free_lists, under_reclaim>>
  /\ TreeFrame

TreeContains(chunk) ==
  /\ event' = Unlocked(Event("contains",
                             IF ztier_rb_contains(free_lists[0], chunk)
                               THEN 1 ELSE 0,
                             chunk, 0))
  /\ UNCHANGED <<free_lists, under_reclaim>>
  /\ TreeFrame

\* ztier_rb_move_range(&free_lists[0], to, start, after), to being
\* &under_reclaim or NULL
TreeMoveRange(start, after, discard) ==
  /\ start < after
  /\ \E m \in {ztier_rb_move_range(free_lists[0],
                                   IF discard THEN NO_TREE ELSE under_reclaim,
                                   start, after)} :
       /\ free_lists' = [free_lists EXCEPT ![0] = m.from]
       /\ under_reclaim' = IF discard THEN under_reclaim ELSE m.to
       /\ bug' = IF m.bug THEN "rb_insert: chunk in tree" ELSE bug
  /\ event' = Unlocked(Event("move_range", IF discard THEN 1 ELSE 0, start, after))
  /\ UNCHANGED <<used_pages, size, ops, ztier_private, host_free, live, th,
                 stale, evicted, all_free, before, inserted, holder>>

\* ztier_rb_move_range(&under_reclaim, NULL, start, after) over a range that
\* holds every chunk: empty the other tree
TreeDiscard ==
  /\ Nodes(under_reclaim) # {}
  /\ under_reclaim' = ztier_rb_move_range(under_reclaim, NO_TREE, 0, 16384).from
  /\ event' = Unlocked(Event("discard", 0, 0, 16384))
  /\ UNCHANGED free_lists
  /\ TreeFrame

NextTree ==
  \/ \E chunk \in TreeKeys : TreeInsert(chunk)
  \/ \E chunk \in TreeKeys : TreeErase(chunk)
  \/ \E chunk \in TreePoints : TreeCeil(chunk)
  \/ \E chunk \in TreePoints : TreeContains(chunk)
  \/ \E start, after \in TreePoints, discard \in BOOLEAN :
       TreeMoveRange(start, after, discard)
  \/ TreeDiscard

SpecTree == InitSerial /\ [][NextTree]_vars

\* the least element of S that is >= x, NULL when there is none
Least(S, x) ==
  IF {n \in S : n >= x} = {} THEN NULL
  ELSE CHOOSE n \in S : n >= x /\ \A m \in S : m >= x => n <= m

\* C40: ztier_rb_ceil(tree, x) returns the least element of the tree that is
\* >= x, and NULL when there is none.
C40_CeilIsLeast ==
  event.op = "ceil" => event.ret = Least(Nodes(free_lists[0]), event.arg)

\* C39: ztier_rb_contains(tree, a) is true exactly when a is in the tree.
C39_ContainsIffMember ==
  event.op = "contains" =>
    (event.ret = 1 <=> event.arg \in Nodes(free_lists[0]))

\* C38: ztier_rb_move_range(from, to, lo, hi) removes from `from` exactly its
\* elements x with lo <= x < hi and adds exactly those to `to`, or to no
\* tree when `to` is NULL; the other elements stay where they are.
C38_MoveRangeExact ==
  [][event'.op = "move_range" =>
       LET range == {n \in Nodes(free_lists[0]) :
                       event'.arg <= n /\ n < event'.req}
       IN /\ bug' = "none"
          /\ Nodes(free_lists'[0]) = Nodes(free_lists[0]) \ range
          /\ Nodes(under_reclaim') =
               IF event'.ret = 1 THEN Nodes(under_reclaim)
               ELSE Nodes(under_reclaim) \cup range]_vars

====
